---- MODULE Spec2Model ----
(***************************************************************************)
(* A node's Blockchain (chain + mempool) of the bitcoin-like distributed   *)
(* system, with the operations that mutate it executed one at a time:      *)
(* add_transaction, add_block (a NEW_BLOCK from a peer), Node.mine and     *)
(* replace_chain (a RESPONSE_CHAIN / sync candidate from a peer).          *)
(*                                                                         *)
(* Blocks and transactions are records with the fields of the dataclasses. *)
(* A SHA-256 hex digest is modelled as a number in 0..HashMod-1 computed   *)
(* from the same fields the code serialises; "the hex string starts with   *)
(* DIFFICULTY" is "the number is below DIFFICULTY" (its leading digits are *)
(* zero).  Amounts are integers.  uuid4() is a fresh id from a counter.    *)
(***************************************************************************)
EXTENDS Integers, Sequences, FiniteSets, TLC

\* the Blockchain of the node, the ids handed out, the last accepted operation
VARIABLES chain, pending_transactions, pending_ids, uuid_count, last

\* a Node.mine() call in steps: the Miner's fields, the caller's position and
\* locals, the workers' positions and nonces, what was returned and broadcast
VARIABLES mining, found_block, stop_event, pc, locals, wpc, wnonce,
          mine_ret, block_broadcast, stop_called, attempts, snap_chain

bcvars == <<chain, pending_transactions, pending_ids, uuid_count, last>>

minervars == <<mining, found_block, stop_event, pc, locals, wpc, wnonce,
               mine_ret, block_broadcast, stop_called, attempts, snap_chain>>

\* a network of nodes: the Blockchain of each, every message sent so far and
\* the messages already handled by their receiver
VARIABLES nodes, msgs, delivered

\* the sync_blockchain() call of each node of the network: its position, its
\* locals, the peers it has polled, and the node's chain before any call
VARIABLES nsync

gossipvars == <<nodes, msgs, delivered, nsync>>

\* a sync_blockchain() call in steps: the caller's position and locals, the
\* number of peers polled, the chain before the call, and the lengths of the
\* longest valid response and of the longest response
VARIABLES sync_pc, best_chain, best_length, polled, sync_start, max_valid,
          max_seen

syncvars == <<sync_pc, best_chain, best_length, polled, sync_start, max_valid,
              max_seen>>

\* the node's peer set and failure counters, the last peer-discovery message
\* or call it handled, the peer set before it, and what handling it made the
\* node send and reply
VARIABLES peers, peer_failures, ping_msg, peers_before, ping_out, ping_reply

pingvars == <<peers, peer_failures, ping_msg, peers_before, ping_out,
              ping_reply>>

\* the threads of the node that run at the same time: where each is in
\* _register_peer, _send_message, add_block or replace_chain, with its peer
\* and, in val, the counter it read or the block or chain it was given
VARIABLES th

\* for every peer, the sends to it that raised and returned since its counter
\* was last set to 0
VARIABLES raised

racevars == <<th, raised>>

\* the state outside the node's Blockchain and Miner
restvars == <<gossipvars, syncvars, pingvars, racevars>>

vars == <<bcvars, minervars, restvars>>

----------------------------------------------------------------------------
(* Bounds of the model *)

MaxChain == 3
MaxTxId == 2
MaxNonce == 7
MaxGossipBlocks == 1
MaxSyncPeers == 2

(* Numbers of the program *)

\* the values a digest takes are 0..HashMod-1
HashMod == 8
\* a digest meets Blockchain.DIFFICULTY when it is below this number
DIFFICULTY == 2
WORKERS == 4
REWARD == 50
\* what time.time() returns
Now == 1

----------------------------------------------------------------------------
(* transaction.py *)

SYSTEM_ADDRESSES == {"genesis", "coinbase"}

Transaction(id, origem, destino, valor, timestamp) ==
    [id |-> id, origem |-> origem, destino |-> destino, valor |-> valor,
     timestamp |-> timestamp]

\* float("inf") and float("nan") among the integers that stand for valor
Infinity == 999
NaN == -999

ValidTransaction_any_number(tx) ==
    /\ ~(tx.valor # NaN /\ tx.valor <= 0)
    /\ tx.origem # ""
    /\ tx.destino # ""
    /\ ~(tx.origem = tx.destino /\ tx.origem \notin SYSTEM_ADDRESSES)

\* __post_init__: valor > 0 (no comparison with nan is true) and finite,
\* non-empty addresses, origem # destino unless system
ValidTransaction(tx) ==
    /\ ~(tx.valor # NaN /\ tx.valor <= 0)
    /\ tx.valor \notin {Infinity, NaN}
    /\ tx.origem # ""
    /\ tx.destino # ""
    /\ ~(tx.origem = tx.destino /\ tx.origem \notin SYSTEM_ADDRESSES)

----------------------------------------------------------------------------
(* block.py *)

\* "0" * 64, the previous_hash of the genesis
ZeroHash == 0

AddrCode(a) ==
    CASE a = "coinbase" -> 1
      [] a = "genesis" -> 2
      [] a = "alice" -> 3
      [] a = "bob" -> 4
      [] OTHER -> 5

\* tx.to_dict() as it enters the block's serialisation
TxDigest(tx) ==
    (5 * tx.id + 3 * AddrCode(tx.origem) + 7 * AddrCode(tx.destino)
       + tx.valor + tx.timestamp) % HashMod

RECURSIVE TxsDigest(_)
TxsDigest(txs) ==
    IF txs = <<>> THEN 0
    ELSE (3 * TxsDigest(SubSeq(txs, 1, Len(txs) - 1)) + TxDigest(txs[Len(txs)]) + 1)
            % HashMod

\* sha256(json.dumps({index, previous_hash, transactions, nonce, timestamp}))
HashOf(index, previous_hash, transactions, nonce, timestamp) ==
    (5 + 3 * index + 5 * previous_hash + 7 * TxsDigest(transactions)
       + nonce + 3 * timestamp) % HashMod

calculate_hash(b) ==
    HashOf(b.index, b.previous_hash, b.transactions, b.nonce, b.timestamp)

\* hash.startswith(DIFFICULTY)
StartsWithDifficulty(h) == h < DIFFICULTY

create_genesis ==
    [index |-> 0, previous_hash |-> ZeroHash, transactions |-> <<>>, nonce |-> 0,
     timestamp |-> 0, hash |-> HashOf(0, ZeroHash, <<>>, 0, 0)]

----------------------------------------------------------------------------
(* blockchain.py *)

\* The Blockchain object as one value
BC == [chain |-> chain, pending_transactions |-> pending_transactions,
       pending_ids |-> pending_ids]

last_block(bc) == bc.chain[Len(bc.chain)]

RECURSIVE SumValor(_)
SumValor(txs) ==
    IF txs = <<>> THEN 0 ELSE txs[1].valor + SumValor(Tail(txs))

RECURSIVE ChainTxs(_)
\* [tx for block in chain for tx in block.transactions]
ChainTxs(ch) ==
    IF ch = <<>> THEN <<>> ELSE ch[1].transactions \o ChainTxs(Tail(ch))

SelectDestino(txs, address) == SelectSeq(txs, LAMBDA tx : tx.destino = address)
SelectOrigem(txs, address) == SelectSeq(txs, LAMBDA tx : tx.origem = address)

get_balance(bc, address) ==
    LET all_txs == ChainTxs(bc.chain) \o bc.pending_transactions
        received == SumValor(SelectDestino(all_txs, address))
        sent == SumValor(SelectOrigem(all_txs, address))
    IN  received - sent

TxIds(txs) == {txs[i].id : i \in 1..Len(txs)}

\* add_transaction without the two duplicate checks
add_transaction_again(bc, transaction) ==
    IF /\ transaction.origem \notin {"genesis", "coinbase"}
       /\ get_balance(bc, transaction.origem) < transaction.valor
    THEN [bc |-> bc, ret |-> FALSE]
    ELSE [bc |-> [bc EXCEPT
                    !.pending_transactions = Append(@, transaction),
                    !.pending_ids = @ \cup {transaction.id}],
          ret |-> TRUE]

add_transaction(bc, transaction) ==
    IF transaction.id \in bc.pending_ids
    THEN [bc |-> bc, ret |-> FALSE]
    ELSE IF transaction.id \in TxIds(ChainTxs(bc.chain))
    THEN [bc |-> bc, ret |-> FALSE]
    ELSE IF /\ transaction.origem \notin {"genesis", "coinbase"}
            /\ get_balance(bc, transaction.origem) < transaction.valor
    THEN [bc |-> bc, ret |-> FALSE]
    ELSE [bc |-> [bc EXCEPT
                    !.pending_transactions = Append(@, transaction),
                    !.pending_ids = @ \cup {transaction.id}],
          ret |-> TRUE]

\* is_valid_block without the recomputation of the hash
is_valid_block_unhashed(bc, block) ==
    /\ block.index = Len(bc.chain)
    /\ block.previous_hash = bc.chain[Len(bc.chain)].hash
    /\ StartsWithDifficulty(block.hash)

is_valid_block(bc, block) ==
    /\ block.index = Len(bc.chain)
    /\ block.previous_hash = last_block(bc).hash
    /\ StartsWithDifficulty(block.hash)
    /\ block.hash = calculate_hash(block)

\* add_block that filters the mempool and leaves _pending_ids as it was
add_block_keeps_index(bc, block) ==
    IF ~is_valid_block(bc, block)
    THEN [bc |-> bc, ret |-> FALSE]
    ELSE LET confirmed_ids == TxIds(block.transactions)
         IN  [bc |-> [chain |-> Append(bc.chain, block),
                      pending_transactions |->
                          SelectSeq(bc.pending_transactions,
                                    LAMBDA tx : tx.id \notin confirmed_ids),
                      pending_ids |-> bc.pending_ids],
              ret |-> TRUE]

\* add_block that appends the block and leaves the mempool as it was
add_block_keeps_mempool(bc, block) ==
    IF ~is_valid_block(bc, block)
    THEN [bc |-> bc, ret |-> FALSE]
    ELSE [bc |-> [bc EXCEPT !.chain = Append(@, block)], ret |-> TRUE]

add_block(bc, block) ==
    IF ~is_valid_block(bc, block)
    THEN [bc |-> bc, ret |-> FALSE]
    ELSE LET confirmed_ids == TxIds(block.transactions)
         IN  [bc |-> [chain |-> Append(bc.chain, block),
                      pending_transactions |->
                          SelectSeq(bc.pending_transactions,
                                    LAMBDA tx : tx.id \notin confirmed_ids),
                      pending_ids |-> bc.pending_ids \ confirmed_ids],
              ret |-> TRUE]

is_valid_chain(ch) ==
    /\ ch # <<>>
    /\ ch[1].hash = create_genesis.hash
    /\ \A i \in 2..Len(ch) :
          /\ ch[i].previous_hash = ch[i - 1].hash
          /\ ch[i].hash = calculate_hash(ch[i])
          /\ StartsWithDifficulty(ch[i].hash)

\* replace_chain that also takes a candidate of equal length
replace_chain_ties(bc, new_chain) ==
    IF Len(new_chain) < Len(bc.chain)
    THEN [bc |-> bc, ret |-> FALSE]
    ELSE IF ~is_valid_chain(new_chain)
    THEN [bc |-> bc, ret |-> FALSE]
    ELSE [bc |-> [bc EXCEPT !.chain = new_chain], ret |-> TRUE]

\* replace_chain that takes any valid candidate, whatever its length
replace_chain_any_length(bc, new_chain) ==
    IF ~is_valid_chain(new_chain)
    THEN [bc |-> bc, ret |-> FALSE]
    ELSE [bc |-> [bc EXCEPT !.chain = new_chain], ret |-> TRUE]

replace_chain(bc, new_chain) ==
    IF Len(new_chain) <= Len(bc.chain)
    THEN [bc |-> bc, ret |-> FALSE]
    ELSE IF ~is_valid_chain(new_chain)
    THEN [bc |-> bc, ret |-> FALSE]
    ELSE [bc |-> [bc EXCEPT !.chain = new_chain], ret |-> TRUE]

----------------------------------------------------------------------------
(* miner.py *)

MinerAddress == "miner"

\* a sort by valor descending that puts the later of two equal values first
RECURSIVE SortByValor_unstable(_)
SortByValor_unstable(txs) ==
    IF txs = <<>> THEN <<>>
    ELSE LET n == Len(txs)
             rest == SortByValor_unstable(SubSeq(txs, 1, n - 1))
             tx == txs[n]
             before == SelectSeq(rest, LAMBDA t : t.valor > tx.valor)
             after == SelectSeq(rest, LAMBDA t : t.valor <= tx.valor)
         IN  before \o <<tx>> \o after

RECURSIVE SortByValor(_)
\* sorted(txs, key=lambda tx: tx.valor, reverse=True): stable, larger valor first
SortByValor(txs) ==
    IF txs = <<>> THEN <<>>
    ELSE LET n == Len(txs)
             rest == SortByValor(SubSeq(txs, 1, n - 1))
             tx == txs[n]
             before == SelectSeq(rest, LAMBDA t : t.valor >= tx.valor)
             after == SelectSeq(rest, LAMBDA t : t.valor < tx.valor)
         IN  before \o <<tx>> \o after

\* the nonces worker_id tries, in order: worker_id, worker_id + WORKERS, ...
WorkerNonces(worker_id) == {n \in 0..MaxNonce : n % WORKERS = worker_id}

Min(S) == CHOOSE x \in S : \A y \in S : x <= y

\* the candidate block of one mine_block call, at a given nonce
Candidate(bc, uuid, nonce) ==
    LET reward_tx == Transaction(uuid, "coinbase", MinerAddress, REWARD, Now)
        transactions == <<reward_tx>> \o SortByValor(bc.pending_transactions)
        block_index == Len(bc.chain)
        prev_hash == last_block(bc).hash
    IN  [index |-> block_index, previous_hash |-> prev_hash,
         transactions |-> transactions, nonce |-> nonce, timestamp |-> Now,
         hash |-> HashOf(block_index, prev_hash, transactions, nonce, Now)]

\* the nonces at which worker_id's loop would publish
FoundNonces(bc, uuid, worker_id) ==
    {n \in WorkerNonces(worker_id) :
        StartsWithDifficulty(Candidate(bc, uuid, n).hash)}

\* the block mine_block returns when worker_id is the first finder
mine_block(bc, uuid, worker_id) ==
    Candidate(bc, uuid, Min(FoundNonces(bc, uuid, worker_id)))

----------------------------------------------------------------------------
(* What clients and peers can send *)

\* the transactions clients create: id 1 funds alice, the others spend from her
TxOf(id) ==
    IF id = 1 THEN Transaction(id, "coinbase", "alice", 50, Now)
    ELSE Transaction(id, "alice", "bob", 30, Now)

TxUniverse == {tx \in {TxOf(id) : id \in 1..MaxTxId} : ValidTransaction(tx)}

Addresses == {"coinbase", "alice", "bob", MinerAddress}

Hashes == 0..(HashMod - 1)

PeerTxLists == {<<>>} \cup {<<tx>> : tx \in TxUniverse}

\* Block(...) with the hash left empty: __post_init__ computes it
NewBlock(index, previous_hash, transactions, nonce, timestamp) ==
    [index |-> index, previous_hash |-> previous_hash, transactions |-> transactions,
     nonce |-> nonce, timestamp |-> timestamp,
     hash |-> HashOf(index, previous_hash, transactions, nonce, timestamp)]

\* How a peer fills nonce and hash of a block it sends: it searched a nonce
\* ("mined"), it did not ("unmined": nonce 0, true hash), or it wrote a hash
\* that meets the difficulty without computing it ("forged")
PeerWays == {"mined", "unmined", "forged"}

PeerBlock(index, previous_hash, transactions, way) ==
    LET good == {n \in 0..MaxNonce :
                    StartsWithDifficulty(
                        HashOf(index, previous_hash, transactions, n, Now))}
        unmined == NewBlock(index, previous_hash, transactions, 0, Now)
    IN  CASE way = "mined" /\ good # {} ->
                NewBlock(index, previous_hash, transactions, Min(good), Now)
          [] way = "forged" -> [unmined EXCEPT !.hash = ZeroHash]
          [] OTHER -> unmined

\* Block.from_dict of the block of a NEW_BLOCK message
PeerBlocks ==
    {PeerBlock(index, previous_hash, transactions, way) :
        index \in 0..(MaxChain - 1), previous_hash \in Hashes,
        transactions \in PeerTxLists, way \in PeerWays}

\* A block a peer appends to its chain c, with at most one thing wrong
ChainFaults == {"none", "index", "link", "unmined", "forged"}

PeerChainBlock(c, transactions, fault) ==
    LET index == Len(c)
        prev == c[Len(c)].hash
    IN  CASE fault = "index" -> PeerBlock(index + 1, prev, transactions, "mined")
          [] fault = "link" ->
                PeerBlock(index, (prev + 1) % HashMod, transactions, "mined")
          [] fault = "unmined" -> PeerBlock(index, prev, transactions, "unmined")
          [] fault = "forged" -> PeerBlock(index, prev, transactions, "forged")
          [] OTHER -> PeerBlock(index, prev, transactions, "mined")

\* a transaction no client created, which a peer puts in its first block
ForgedTx == Transaction(0, "coinbase", "bob", 50, Now)

\* The first block of a peer's chain: the genesis, a block with the genesis's
\* hash field and other content, or a block with another hash
PeerFirstBlocks ==
    {[c |-> <<create_genesis>>, faults |-> 0],
     [c |-> <<[create_genesis EXCEPT !.transactions = <<ForgedTx>>]>>, faults |-> 1],
     [c |-> <<[create_genesis EXCEPT !.hash = (@ + 1) % HashMod]>>, faults |-> 1]}

RECURSIVE PeerChains(_)
\* the chains of n blocks a peer can send, with at most one faulty block
PeerChains(n) ==
    IF n = 1 THEN PeerFirstBlocks
    ELSE UNION {{[c |-> Append(x.c, PeerChainBlock(x.c, transactions, fault)),
                  faults |-> x.faults + (IF fault = "none" THEN 0 ELSE 1)] :
                    transactions \in PeerTxLists,
                    fault \in {f \in ChainFaults : f = "none" \/ x.faults = 0}} :
                x \in PeerChains(n - 1)}

\* [Block.from_dict(b) for b in chain_data["chain"]] of a RESPONSE_CHAIN
CandidateChains ==
    {<<>>} \cup UNION {{x.c : x \in PeerChains(n)} : n \in 1..MaxChain}

NextUuid == MaxTxId + uuid_count + 1

----------------------------------------------------------------------------
(* The operations, one at a time *)

\* three nodes, each with a new Blockchain, and nothing sent
Nodes == {1, 2, 3}

MAX_PEERS == 20

MAX_FAILURES == 3

\* peer addresses are numbers; the node's own address is none of them
PeerAddresses == 1..(MAX_PEERS + 2)

SelfAddress == MAX_PEERS + 3

GossipIdle ==
    /\ nodes = [n \in Nodes |->
                  [chain |-> <<create_genesis>>, pending_transactions |-> <<>>,
                   pending_ids |-> {}]]
    /\ msgs = {}
    /\ delivered = {}
    /\ nsync = [n \in Nodes |->
                  [pc |-> "idle", best_chain |-> <<>>, best_length |-> 0,
                   polled |-> {}, before |-> <<create_genesis>>]]

\* no sync_blockchain() call under way
SyncIdle ==
    /\ sync_pc = "idle"
    /\ best_chain = <<>>
    /\ best_length = 0
    /\ polled = 0
    /\ sync_start = <<>>
    /\ max_valid = 0
    /\ max_seen = 0

\* Node.__init__: no peers and no failures (a missing counter reads 0)
PingIdle ==
    /\ peers = {}
    /\ peer_failures = [p \in PeerAddresses |-> 0]
    /\ ping_msg = [type |-> "NONE", sender |-> 0, payload |-> <<>>]
    /\ peers_before = {}
    /\ ping_out = {}
    /\ ping_reply = "none"

\* two threads at a time, as started by _accept_connections and _broadcast
Threads == {1, 2}

IdleThread == [pc |-> "idle", peer |-> 0, val |-> 0]

RaceIdle ==
    /\ th = [t \in Threads |-> IdleThread]
    /\ raised = [p \in PeerAddresses |-> 0]

RestIdle == GossipIdle /\ SyncIdle /\ PingIdle /\ RaceIdle

\* None, and a value that is not None
None == <<>>
Some(x) == <<x>>

\* Miner.__init__, and no mine() call under way
MinerIdle ==
    /\ mining = FALSE
    /\ found_block = None
    /\ stop_event = FALSE
    /\ pc = "idle"
    /\ locals = [transactions |-> <<>>, block_index |-> 0, prev_hash |-> ZeroHash]
    /\ wpc = [w \in 0..(WORKERS - 1) |-> "done"]
    /\ wnonce = [w \in 0..(WORKERS - 1) |-> w]
    /\ mine_ret = None
    /\ block_broadcast = {}
    /\ stop_called = FALSE
    /\ attempts = [w \in 0..(WORKERS - 1) |-> 0]
    /\ snap_chain = <<>>
    /\ RestIdle

Init ==
    /\ chain = <<create_genesis>>
    /\ pending_transactions = <<>>
    /\ pending_ids = {}
    /\ uuid_count = 0
    /\ last = "init"
    /\ MinerIdle

\* the state after a call that returned r; last names the last operation that
\* returned true (a call that returns false changes nothing)
Install(r, op) ==
    /\ chain' = r.bc.chain
    /\ pending_transactions' = r.bc.pending_transactions
    /\ pending_ids' = r.bc.pending_ids
    /\ last' = IF r.ret THEN op ELSE last

AddTransaction ==
    \E r \in {add_transaction(BC, tx) : tx \in TxUniverse} :
        /\ Install(r, "add_transaction")
        /\ UNCHANGED <<uuid_count, minervars, restvars>>

\* NEW_BLOCK: add_block, and stop_mining() when the block was accepted
AddBlock ==
    \E r \in {add_block(BC, block) : block \in PeerBlocks} :
        /\ Install(r, "add_block")
        /\ mining' = (mining /\ ~r.ret)
        /\ stop_called' =
              (stop_called
                 \/ (r.ret /\ pc \in {"snap_index", "snap_hash", "set_mining", "join"}))
        /\ UNCHANGED <<uuid_count, found_block, stop_event, pc, locals, wpc, wnonce,
                       mine_ret, block_broadcast, attempts, snap_chain,
                   restvars>>

\* Node.mine: mine_block over the mempool, then broadcast_block commits it
Mine ==
    IF pending_transactions = <<>>
    THEN UNCHANGED vars
    ELSE /\ Len(chain) < MaxChain
         /\ \E worker_id \in 0..(WORKERS - 1) :
               /\ FoundNonces(BC, NextUuid, worker_id) # {}
               /\ LET block == mine_block(BC, NextUuid, worker_id)
                      r == add_block(BC, block)
                  IN  /\ chain' = r.bc.chain
                      /\ pending_transactions' = r.bc.pending_transactions
                      /\ pending_ids' = r.bc.pending_ids
                      /\ last' = "mine"
         /\ uuid_count' = uuid_count + 1
         /\ UNCHANGED <<minervars, restvars>>

ReplaceChain ==
    \E r \in {replace_chain(BC, new_chain) : new_chain \in CandidateChains} :
        /\ Install(r, "replace_chain")
        /\ UNCHANGED <<uuid_count, minervars, restvars>>

Next == AddTransaction \/ AddBlock \/ Mine \/ ReplaceChain

Spec == Init /\ [][Next]_vars

----------------------------------------------------------------------------
(* Node.mine() step by step: the caller, the WORKERS threads of mine_block,  *)
(* and stop_mining() from another thread                                     *)

Workers == 0..(WORKERS - 1)

\* snap_chain is the chain as it was when mine_block read its length
\* a mine() call is between its entry into mine_block and its return
InMineBlock == pc \in {"snap_index", "snap_hash", "set_mining", "join"}

\* Block(index=block_index, previous_hash=prev_hash, transactions=transactions,
\* nonce=..., timestamp=timestamp) of the caller's locals
LocalBlock(nonce) ==
    NewBlock(locals.block_index, locals.prev_hash, locals.transactions, nonce, Now)

\* the block a worker holds
WorkerBlock(w) == LocalBlock(wnonce[w])

\* block.nonce += 1
NextNonce_by_one(w) ==
    IF wnonce[w] + 1 <= MaxNonce THEN wnonce[w] + 1 ELSE w

\* block.nonce += WORKERS; beyond MaxNonce the worker starts its nonces over
NextNonce(w) ==
    IF wnonce[w] + WORKERS <= MaxNonce THEN wnonce[w] + WORKERS ELSE w

\* mine(): nothing pending returns None; otherwise mine_block sorts the
\* mempool and puts the reward transaction in front
MineCall ==
    /\ pc = "idle"
    /\ IF pending_transactions = <<>>
       THEN /\ pc' = "returned"
            /\ mine_ret' = None
            /\ UNCHANGED <<locals, uuid_count, stop_called, snap_chain, attempts>>
       ELSE /\ Len(chain) < MaxChain
            /\ locals' = [locals EXCEPT !.transactions =
                            <<Transaction(NextUuid, "coinbase", MinerAddress,
                                          REWARD, Now)>>
                                \o SortByValor(pending_transactions)]
            /\ uuid_count' = uuid_count + 1
            /\ stop_called' = FALSE
            /\ attempts' = [w \in Workers |-> 0]
            /\ pc' = "snap_index"
            /\ UNCHANGED <<mine_ret, snap_chain>>
    /\ UNCHANGED <<chain, pending_transactions, pending_ids, last, mining,
                   found_block, stop_event, wpc, wnonce, block_broadcast,
                   restvars>>

\* block_index = len(self.blockchain.chain)
SnapIndex ==
    /\ pc = "snap_index"
    /\ locals' = [locals EXCEPT !.block_index = Len(chain)]
    /\ snap_chain' = chain
    /\ pc' = "snap_hash"
    /\ UNCHANGED <<bcvars, mining, found_block, stop_event, wpc, wnonce,
                   mine_ret, block_broadcast, stop_called, attempts,
                   restvars>>

\* prev_hash = self.blockchain.last_block.hash
SnapHash ==
    /\ pc = "snap_hash"
    /\ locals' = [locals EXCEPT !.prev_hash = last_block(BC).hash]
    /\ pc' = "set_mining"
    /\ UNCHANGED <<bcvars, mining, found_block, stop_event, wpc, wnonce,
                   mine_ret, block_broadcast, stop_called, snap_chain, attempts,
                   restvars>>

\* self.mining = True; self._found_block = None; a new stop_event; the threads
SetMining ==
    /\ pc = "set_mining"
    /\ mining' = TRUE
    /\ found_block' = None
    /\ stop_event' = FALSE
    /\ wpc' = [w \in Workers |-> "check"]
    /\ wnonce' = [w \in Workers |-> w]
    /\ pc' = "join"
    /\ UNCHANGED <<bcvars, locals, mine_ret, block_broadcast, stop_called,
                   snap_chain, attempts,
                   restvars>>

\* while self.mining and not stop_event.is_set()
WCheck(w) ==
    /\ wpc[w] = "check"
    /\ wpc' = [wpc EXCEPT ![w] = IF mining /\ ~stop_event THEN "hash" ELSE "done"]
    /\ UNCHANGED <<bcvars, mining, found_block, stop_event, pc, locals, wnonce,
                   mine_ret, block_broadcast, stop_called, snap_chain, attempts,
                   restvars>>

\* a hash attempt that publishes whatever the hash is
WHash_untested(w) ==
    /\ wpc[w] = "hash"
    /\ wpc' = [wpc EXCEPT ![w] = "publish"]
    /\ UNCHANGED <<bcvars, mining, found_block, stop_event, pc, locals, wnonce,
                   mine_ret, block_broadcast, stop_called, snap_chain, attempts,
                   restvars>>

\* one hash attempt: block.hash = block.calculate_hash(), the difficulty test,
\* and block.nonce += WORKERS when it fails; attempts counts the attempts made
\* after a stop was signalled
WHash(w) ==
    /\ wpc[w] = "hash"
    /\ attempts' = [attempts EXCEPT ![w] =
                       IF stop_called \/ stop_event THEN Min({@ + 1, 2}) ELSE @]
    /\ IF StartsWithDifficulty(WorkerBlock(w).hash)
       THEN /\ wpc' = [wpc EXCEPT ![w] = "publish"]
            /\ UNCHANGED wnonce
       ELSE /\ wpc' = [wpc EXCEPT ![w] = "check"]
            /\ wnonce' = [wnonce EXCEPT ![w] = NextNonce(w)]
    /\ UNCHANGED <<bcvars, mining, found_block, stop_event, pc, locals,
                   mine_ret, block_broadcast, stop_called, snap_chain,
                   restvars>>

\* a publication that does not look at the slot first
WPublish_overwrite(w) ==
    /\ wpc[w] = "publish"
    /\ found_block' = Some(WorkerBlock(w))
    /\ wpc' = [wpc EXCEPT ![w] = "set"]
    /\ UNCHANGED <<bcvars, mining, stop_event, pc, locals, wnonce,
                   mine_ret, block_broadcast, stop_called, snap_chain, attempts,
                   restvars>>

\* with self._lock: if self._found_block is None: self._found_block = block
WPublish(w) ==
    /\ wpc[w] = "publish"
    /\ found_block' = IF found_block = None THEN Some(WorkerBlock(w)) ELSE found_block
    /\ wpc' = [wpc EXCEPT ![w] = "set"]
    /\ UNCHANGED <<bcvars, mining, stop_event, pc, locals, wnonce,
                   mine_ret, block_broadcast, stop_called, snap_chain, attempts,
                   restvars>>

\* stop_event.set(); return
WSet(w) ==
    /\ wpc[w] = "set"
    /\ stop_event' = TRUE
    /\ wpc' = [wpc EXCEPT ![w] = "done"]
    /\ UNCHANGED <<bcvars, mining, found_block, pc, locals, wnonce,
                   mine_ret, block_broadcast, stop_called, snap_chain, attempts,
                   restvars>>

\* every thread joined: self.mining = False; return self._found_block
Join ==
    /\ pc = "join"
    /\ \A w \in Workers : wpc[w] = "done"
    /\ mining' = FALSE
    /\ mine_ret' = found_block
    /\ pc' = "commit"
    /\ UNCHANGED <<bcvars, found_block, stop_event, locals, wpc, wnonce,
                   block_broadcast, stop_called, snap_chain, attempts,
                   restvars>>

\* if block: broadcast_block(block), which broadcasts when add_block accepts;
\* return block
Commit ==
    /\ pc = "commit"
    /\ pc' = "returned"
    /\ IF mine_ret = None
       THEN UNCHANGED <<chain, pending_transactions, pending_ids, last,
                        block_broadcast>>
       ELSE LET r == add_block(BC, mine_ret[1])
            IN  /\ Install(r, "mine")
                /\ block_broadcast' =
                      IF r.ret THEN block_broadcast \cup {mine_ret[1]}
                      ELSE block_broadcast
    /\ UNCHANGED <<uuid_count, mining, found_block, stop_event, locals, wpc,
                   wnonce, mine_ret, stop_called, snap_chain, attempts,
                   restvars>>

\* stop_mining(), from any thread at any time
StopMining ==
    /\ mining' = FALSE
    /\ stop_called' = (stop_called \/ InMineBlock)
    /\ UNCHANGED <<bcvars, found_block, stop_event, pc, locals, wpc, wnonce,
                   mine_ret, block_broadcast, attempts, snap_chain,
                   restvars>>

\* a node with one pending transaction, about to mine
MinerInit ==
    /\ chain = <<create_genesis>>
    /\ pending_transactions = <<TxOf(1)>>
    /\ pending_ids = {1}
    /\ uuid_count = 0
    /\ last = "add_transaction"
    /\ MinerIdle

MinerNext ==
    \/ MineCall
    \/ SnapIndex
    \/ SnapHash
    \/ SetMining
    \/ \E w \in Workers : WCheck(w)
    \/ \E w \in Workers : WHash(w)
    \/ \E w \in Workers : WPublish(w)
    \/ \E w \in Workers : WSet(w)
    \/ Join
    \/ Commit
    \/ StopMining

\* one mine() call with stop_mining() at any time and the chain left alone
SpecMiner == MinerInit /\ [][MinerNext]_vars

\* a node with one pending transaction, which a system address pays to alice
\* or to bob, about to mine
PartitionInit ==
    /\ chain = <<create_genesis>>
    /\ pending_transactions
          \in {<<Transaction(1, "coinbase", destino, valor, Now)>> :
                  destino \in {"alice", "bob"}, valor \in {30, REWARD}}
    /\ pending_ids = {1}
    /\ uuid_count = 0
    /\ last = "add_transaction"
    /\ MinerIdle

\* one mine() call on each of these mempools
SpecPartition == PartitionInit /\ [][MinerNext]_vars

\* the nonces at which worker w's loop meets the difficulty
LocalFoundNonces(w) ==
    {n \in WorkerNonces(w) : StartsWithDifficulty(LocalBlock(n).hash)}

\* the threads from start to join in one step, as the caller sees them: they
\* touch only mining, stop_event and _found_block, so they end with no block
\* when mining was cleared, and otherwise with the block of the first finder
RunWorkers ==
    /\ pc = "join"
    /\ \A w \in Workers : wpc[w] = "check"
    /\ IF ~mining
       THEN UNCHANGED <<found_block, stop_event>>
       ELSE \E w \in Workers :
               /\ LocalFoundNonces(w) # {}
               /\ found_block' = Some(LocalBlock(Min(LocalFoundNonces(w))))
               /\ stop_event' = TRUE
    /\ wpc' = [w \in Workers |-> "done"]
    /\ UNCHANGED <<bcvars, mining, pc, locals, wnonce, mine_ret, block_broadcast,
                   stop_called, snap_chain, attempts,
                   restvars>>

\* one mine() call while blocks and chains arrive from peers
NodeMineNext ==
    \/ MineCall
    \/ SnapIndex
    \/ SnapHash
    \/ SetMining
    \/ RunWorkers
    \/ Join
    \/ Commit
    \/ StopMining
    \/ AddBlock
    \/ ReplaceChain

SpecNodeMine == MinerInit /\ [][NodeMineNext]_vars

----------------------------------------------------------------------------
(* Gossip between the nodes: broadcast_transaction, mine and the handling of *)
(* NEW_TRANSACTION and NEW_BLOCK, with messages delivered in any order       *)

\* self.peers of node n: the nodes are fully connected and no peer has failed
Peers(n) == Nodes \ {n}

NoSender == 0

\* a _broadcast that sends to every peer, the excluded one too
broadcast_to_all(self, type, payload, exclude) ==
    {[type |-> type, payload |-> payload, sender |-> self, to |-> p,
      via |-> exclude] : p \in Peers(self)}

\* a _broadcast whose sends reach nobody
broadcast_nowhere(self, type, payload, exclude) == {}

\* _broadcast(message, exclude): message.sender = self.address, and one send to
\* every peer but exclude; via records the sender of the message that was
\* being handled (NoSender when the node itself made the message)
broadcast(self, type, payload, exclude) ==
    {[type |-> type, payload |-> payload, sender |-> self, to |-> p,
      via |-> exclude] : p \in Peers(self) \ {exclude}}

\* _process_message for the two gossip types: the Blockchain after it, the
\* messages sent, and whether the payload was accepted
process_message(self, bc, message) ==
    LET r == IF message.type = "NEW_TRANSACTION"
             THEN add_transaction(bc, message.payload)
             ELSE add_block(bc, message.payload)
    IN  [bc |-> r.bc,
         out |-> IF r.ret
                 THEN broadcast(self, message.type, message.payload, message.sender)
                 ELSE {},
         ret |-> r.ret]

TxMessages == {m \in msgs : m.type = "NEW_TRANSACTION"}

BlocksSent == {m.payload : m \in {x \in msgs : x.type = "NEW_BLOCK"}}

\* the transactions made at the nodes: they spend from a system address
GossipTxs == {tx \in TxUniverse : tx.origem \in SYSTEM_ADDRESSES}

InFlight == msgs \ delivered

GossipFrame ==
    UNCHANGED <<chain, pending_transactions, pending_ids, last, minervars,
                syncvars, pingvars, racevars, nsync>>

\* broadcast_transaction(tx) at node n, for a transaction made at n
BroadcastTransaction(n) ==
    \E tx \in GossipTxs :
        LET r == add_transaction(nodes[n], tx)
        IN  /\ \A m \in TxMessages : m.payload.id # tx.id
            /\ r.ret
            /\ nodes' = [nodes EXCEPT ![n] = r.bc]
            /\ msgs' = msgs \cup broadcast(n, "NEW_TRANSACTION", tx, NoSender)
            /\ UNCHANGED <<delivered, uuid_count>>
            /\ GossipFrame

\* mine() at node n: the mined block is committed and broadcast
GossipMine(n) ==
    /\ nodes[n].pending_transactions # <<>>
    /\ Cardinality(BlocksSent) < MaxGossipBlocks
    /\ \E worker_id \in Workers :
          /\ FoundNonces(nodes[n], NextUuid, worker_id) # {}
          /\ LET block == mine_block(nodes[n], NextUuid, worker_id)
                 r == add_block(nodes[n], block)
             IN  /\ nodes' = [nodes EXCEPT ![n] = r.bc]
                 /\ msgs' = msgs \cup broadcast(n, "NEW_BLOCK", block, NoSender)
    /\ uuid_count' = uuid_count + 1
    /\ UNCHANGED delivered
    /\ GossipFrame

\* a node's handler thread takes one message addressed to the node
Deliver(m) ==
    LET r == process_message(m.to, nodes[m.to], m)
    IN  /\ nodes' = [nodes EXCEPT ![m.to] = r.bc]
        /\ msgs' = msgs \cup r.out
        /\ delivered' = delivered \cup {m}
        /\ UNCHANGED uuid_count
        /\ GossipFrame

GossipNext ==
    \/ \E n \in Nodes : BroadcastTransaction(n)
    \/ \E n \in Nodes : GossipMine(n)
    \/ \E m \in InFlight : Deliver(m)

SpecGossip == Init /\ [][GossipNext]_vars

----------------------------------------------------------------------------
(* sync_blockchain(): the peers are polled one after the other and the best  *)
(* candidate is installed at the end                                         *)

Max(S) == CHOOSE x \in S : \A y \in S : x >= y

\* [Block.from_dict(b) for b in chain_data["chain"]] of a peer's answer: the
\* chains a peer can send whose blocks after the first carry no transaction
SyncCandidates ==
    {c \in CandidateChains : \A i \in 2..Len(c) : c[i].transactions = <<>>}

SyncFrame ==
    UNCHANGED <<uuid_count, minervars, gossipvars, pingvars, racevars>>

\* best_chain = None; best_length = len(self.blockchain.chain)
SyncStart ==
    /\ sync_pc = "idle"
    /\ best_chain' = None
    /\ best_length' = Len(chain)
    /\ polled' = 0
    /\ sync_start' = chain
    /\ max_valid' = 0
    /\ max_seen' = 0
    /\ sync_pc' = "polling"
    /\ UNCHANGED <<chain, pending_transactions, pending_ids, last>>
    /\ SyncFrame

\* a poll that keeps a valid candidate longer than the local chain, whatever
\* was kept before
SyncPoll_keeps_last ==
    /\ sync_pc = "polling"
    /\ polled < MaxSyncPeers
    /\ polled' = polled + 1
    /\ \/ UNCHANGED <<best_chain, best_length, max_valid, max_seen>>
       \/ \E candidate \in SyncCandidates :
             /\ IF Len(candidate) > Len(chain) /\ is_valid_chain(candidate)
                THEN best_chain' = Some(candidate) /\ best_length' = Len(candidate)
                ELSE UNCHANGED <<best_chain, best_length>>
             /\ max_valid' = IF is_valid_chain(candidate)
                             THEN Max({max_valid, Len(candidate)})
                             ELSE max_valid
             /\ max_seen' = Max({max_seen, Len(candidate)})
    /\ UNCHANGED <<chain, pending_transactions, pending_ids, last, sync_pc,
                   sync_start>>
    /\ SyncFrame

\* one peer of the loop: no usable response (no answer, another type, an
\* exception), or a RESPONSE_CHAIN whose candidate is kept when it is longer
\* than the best so far and valid
SyncPoll ==
    /\ sync_pc = "polling"
    /\ polled < MaxSyncPeers
    /\ polled' = polled + 1
    /\ \/ UNCHANGED <<best_chain, best_length, max_valid, max_seen>>
       \/ \E candidate \in SyncCandidates :
             /\ IF Len(candidate) > best_length /\ is_valid_chain(candidate)
                THEN best_chain' = Some(candidate) /\ best_length' = Len(candidate)
                ELSE UNCHANGED <<best_chain, best_length>>
             /\ max_valid' = IF is_valid_chain(candidate)
                             THEN Max({max_valid, Len(candidate)})
                             ELSE max_valid
             /\ max_seen' = Max({max_seen, Len(candidate)})
    /\ UNCHANGED <<chain, pending_transactions, pending_ids, last, sync_pc,
                   sync_start>>
    /\ SyncFrame

\* after the loop: if best_chain: self.blockchain.replace_chain(best_chain)
SyncFinish ==
    /\ sync_pc = "polling"
    /\ sync_pc' = "done"
    /\ IF best_chain = None
       THEN UNCHANGED <<chain, pending_transactions, pending_ids, last>>
       ELSE Install(replace_chain(BC, best_chain[1]), "replace_chain")
    /\ UNCHANGED <<best_chain, best_length, polled, sync_start, max_valid,
                   max_seen>>
    /\ SyncFrame

\* sync_blockchain() has returned; it can be called again
SyncReturn ==
    /\ sync_pc = "done"
    /\ sync_pc' = "idle"
    /\ UNCHANGED <<chain, pending_transactions, pending_ids, last, best_chain,
                   best_length, polled, sync_start, max_valid, max_seen>>
    /\ SyncFrame

SyncNext == SyncStart \/ SyncPoll \/ SyncFinish \/ SyncReturn

SpecSync == Init /\ [][SyncNext]_vars

----------------------------------------------------------------------------
(* Peer discovery: Node._process_message on PING and PEERS_LIST *)

\* Node._register_peer: a known peer and a peer beyond MAX_PEERS are ignored
register_peer(ps, peer_address) ==
    IF peer_address \in ps THEN ps
    ELSE IF Cardinality(ps) >= MAX_PEERS THEN ps
    ELSE ps \cup {peer_address}

\* Node._broadcast over the peer set ps with failure counters pf: one message
\* to every peer but exclude and the peers that failed MAX_FAILURES times
peers_broadcast(ps, pf, type, payload, exclude) ==
    LET active_peers == {p \in ps : p # exclude /\ pf[p] < MAX_FAILURES}
    IN  {[type |-> type, payload |-> payload, sender |-> SelfAddress,
          to |-> p] : p \in active_peers}

\* the PING case of Node._process_message: the peer set, the messages sent and
\* the reply
process_ping(ps, pf, sender) ==
    IF sender # NoSender /\ sender # SelfAddress
    THEN LET is_new == sender \notin ps
             registered == register_peer(ps, sender)
         IN  [peers |-> registered,
              out |-> IF is_new
                      THEN peers_broadcast(registered, pf, "PEERS_LIST",
                                           <<sender>>, sender)
                      ELSE {},
              reply |-> "PONG"]
    ELSE [peers |-> ps, out |-> {}, reply |-> "PONG"]

RECURSIVE process_peers_list_with_self(_, _)
process_peers_list_with_self(ps, listed) ==
    IF listed = <<>> THEN ps
    ELSE process_peers_list_with_self(register_peer(ps, Head(listed)),
                                      Tail(listed))

\* the PEERS_LIST case of Node._process_message: every listed peer but the
\* node itself is registered, in the order the set is iterated
RECURSIVE process_peers_list(_, _)
process_peers_list(ps, listed) ==
    IF listed = <<>> THEN ps
    ELSE process_peers_list(
             IF Head(listed) = SelfAddress THEN ps
             ELSE register_peer(ps, Head(listed)),
             Tail(listed))

\* the senders a message can have: none, the node itself, a known peer, the
\* lowest unknown address and the highest address
Senders ==
    {NoSender, SelfAddress, MAX_PEERS + 2} \cup peers
        \cup {a \in PeerAddresses \ peers : \A b \in PeerAddresses \ peers : a <= b}

PingFrame == UNCHANGED <<bcvars, minervars, gossipvars, syncvars, racevars>>

\* a PING from sender arrives
PingFrom(sender) ==
    LET r == process_ping(peers, peer_failures, sender)
    IN  /\ ping_msg' = [type |-> "PING", sender |-> sender, payload |-> <<>>]
        /\ peers_before' = peers
        /\ UNCHANGED peer_failures
        /\ peers' = r.peers
        /\ ping_out' = r.out
        /\ ping_reply' = r.reply
        /\ PingFrame

Ping == \E sender \in Senders : PingFrom(sender)

\* the addresses a PEERS_LIST can name: the node itself, the lowest unknown
\* address and the highest address
Listed == Senders \ ({NoSender} \cup (peers \ {MAX_PEERS + 2}))

\* a PEERS_LIST of one or two addresses arrives; the handler does not read
\* its sender
PeersList ==
    \E a, b \in Listed :
        \E listed \in {<<a>>, <<a, b>>} :
            /\ a # b
            /\ ping_msg' = [type |-> "PEERS_LIST", sender |-> MAX_PEERS + 2,
                            payload |-> listed]
            /\ peers_before' = peers
            /\ UNCHANGED peer_failures
            /\ peers' = process_peers_list(peers, listed)
            /\ ping_out' = {}
            /\ ping_reply' = "none"
            /\ PingFrame

\* a DISCOVER_PEERS arrives: the reply lists the peers, nothing changes
DiscoverPeers ==
    /\ ping_msg' = [type |-> "DISCOVER_PEERS", sender |-> MAX_PEERS + 2,
                    payload |-> <<>>]
    /\ peers_before' = peers
    /\ ping_out' = {}
    /\ ping_reply' = "PEERS_LIST"
    /\ UNCHANGED <<peers, peer_failures>>
    /\ PingFrame

\* the peers whose connections can fail
FlakyPeers == {1}

\* what a direct send can meet: a reply, a reply that does not decode, a
\* connection closed without a reply, and an exception
SendOutcomes == {"reply", "bad_reply", "no_reply", "exception"}

\* Node._send_message: the failure counters after a send to peer_address
send_message(pf, peer_address, outcome) ==
    CASE outcome = "reply" -> [pf EXCEPT ![peer_address] = 0]
      [] outcome = "bad_reply" -> [pf EXCEPT ![peer_address] = 0 + 1]
      [] outcome = "no_reply" -> pf
      [] outcome = "exception" ->
             [pf EXCEPT ![peer_address] = pf[peer_address] + 1]

\* Node.connect_to_peer: answered says whether the peer answered the PING,
\* outcome and listed are what the DISCOVER_PEERS sent next met
connect_to_peer(ps, pf, peer_address, answered, outcome, listed) ==
    IF peer_address = SelfAddress
    THEN [peers |-> ps, failures |-> pf, ret |-> FALSE]
    ELSE IF Cardinality(ps) >= MAX_PEERS
    THEN [peers |-> ps, failures |-> pf, ret |-> FALSE]
    ELSE IF ~answered
    THEN [peers |-> ps, failures |-> pf, ret |-> FALSE]
    ELSE LET registered == register_peer(ps, peer_address)
             reset == [pf EXCEPT ![peer_address] = 0]
         IN  [peers |-> IF outcome = "reply"
                        THEN process_peers_list(registered, listed)
                        ELSE registered,
              failures |-> send_message(reset, peer_address, outcome),
              ret |-> TRUE]

\* the lists of one or two addresses a PEERS_LIST can carry
PeerLists ==
    {<<a>> : a \in Listed}
        \cup {l \in {<<a, b>> : a \in Listed, b \in Listed} : l[1] # l[2]}

\* connect_to_peer() is called with the node's own address, a known peer
\* whose connections can fail, the lowest unknown address or the highest
\* address
ConnectTargets ==
    (Senders \ ({NoSender} \cup peers)) \cup (peers \cap FlakyPeers)

\* the ways a connect_to_peer() call can go: the PING is not answered, or it
\* is and the DISCOVER_PEERS meets one of the outcomes of a send
ConnectRuns(peer_address) ==
    {[answered |-> FALSE, outcome |-> "no_reply", listed |-> <<>>]}
        \cup {[answered |-> TRUE, outcome |-> o, listed |-> <<>>]
                 : o \in IF peer_address \in FlakyPeers
                         THEN SendOutcomes ELSE {"reply", "no_reply"}}
        \cup {[answered |-> TRUE, outcome |-> "reply", listed |-> l]
                 : l \in PeerLists}

ConnectToPeer ==
    \E peer_address \in ConnectTargets :
        \E run \in ConnectRuns(peer_address) :
            LET r == connect_to_peer(peers, peer_failures, peer_address,
                                     run.answered, run.outcome, run.listed)
            IN  /\ ping_msg' = [type |-> "connect_to_peer",
                                sender |-> peer_address,
                                payload |-> run.listed]
                /\ peers_before' = peers
                /\ peers' = r.peers
                /\ peer_failures' = r.failures
                /\ ping_out' = {}
                /\ ping_reply' = IF r.ret THEN "True" ELSE "False"
                /\ PingFrame

PingNext == Ping \/ PeersList \/ DiscoverPeers \/ ConnectToPeer

SpecPing == Init /\ [][PingNext]_vars

----------------------------------------------------------------------------
(* _register_peer called by threads that run at the same time *)

RegisterFrame ==
    UNCHANGED <<bcvars, minervars, gossipvars, syncvars, peer_failures,
                ping_msg, peers_before, ping_out, ping_reply, raised>>

\* a handler or connect_to_peer thread calls _register_peer with the lowest
\* unknown address or the highest address
RegCall(t) ==
    /\ th[t].pc = "idle"
    /\ \E peer_address \in Senders \ ({NoSender, SelfAddress} \cup peers) :
          th' = [th EXCEPT ![t] = [pc |-> "known", peer |-> peer_address,
                                   val |-> 0]]
    /\ UNCHANGED peers
    /\ RegisterFrame

\* if peer_address in self.peers: return
RegKnown(t) ==
    /\ th[t].pc = "known"
    /\ th' = [th EXCEPT ![t] = IF th[t].peer \in peers THEN IdleThread
                               ELSE [@ EXCEPT !.pc = "limit"]]
    /\ UNCHANGED peers
    /\ RegisterFrame

\* if len(self.peers) >= self.MAX_PEERS: return
RegLimit(t) ==
    /\ th[t].pc = "limit"
    /\ th' = [th EXCEPT ![t] = IF Cardinality(peers) >= MAX_PEERS
                               THEN IdleThread
                               ELSE [@ EXCEPT !.pc = "add"]]
    /\ UNCHANGED peers
    /\ RegisterFrame

\* self.peers.add(peer_address)
RegAdd(t) ==
    /\ th[t].pc = "add"
    /\ peers' = peers \cup {th[t].peer}
    /\ th' = [th EXCEPT ![t] = IdleThread]
    /\ RegisterFrame

RegisterNext ==
    \E t \in Threads : RegCall(t) \/ RegKnown(t) \/ RegLimit(t) \/ RegAdd(t)

SpecRegister == Init /\ [][RegisterNext]_vars

----------------------------------------------------------------------------
(* _send_message called by threads that run at the same time, and _broadcast *)

MaxFailCount == 4

\* the peers of the node in this part
SendPeers == FlakyPeers \cup {2, 3}

SendFrame == UNCHANGED <<bcvars, minervars, gossipvars, syncvars>>

\* a PING registers one of the peers
SendPing ==
    /\ \A t \in Threads : th[t].pc = "idle"
    /\ \E sender \in SendPeers \ peers : PingFrom(sender)

\* the counters stay below MaxFailCount + 2
CanRaise(peer_address) ==
    /\ raised[peer_address] < MaxFailCount
    /\ peer_failures[peer_address] < MaxFailCount
    /\ \A t \in Threads : th[t].val < MaxFailCount

SendDone(peer_address, outcome) ==
    /\ ping_msg' = [type |-> "send_message", sender |-> peer_address,
                    payload |-> <<outcome>>]
    /\ peers_before' = peers
    /\ ping_out' = {}
    /\ ping_reply' = "none"

\* a send gets its reply: self._peer_failures[peer_address] = 0
SendReply(t) ==
    /\ th[t].pc = "idle"
    /\ \E peer_address \in peers :
          /\ peer_failures' = send_message(peer_failures, peer_address, "reply")
          /\ raised' = [raised EXCEPT ![peer_address] = 0]
          /\ SendDone(peer_address, "reply")
    /\ UNCHANGED <<peers, th>>
    /\ SendFrame

\* a send is delivered and the connection is closed without a reply
SendNoReply(t) ==
    /\ th[t].pc = "idle"
    /\ \E peer_address \in peers :
          /\ peer_failures' =
                 send_message(peer_failures, peer_address, "no_reply")
          /\ SendDone(peer_address, "no_reply")
    /\ UNCHANGED <<peers, th, raised>>
    /\ SendFrame

\* a send raises: the thread enters the except clause
SendRaise(t) ==
    /\ th[t].pc = "idle"
    /\ \E peer_address \in peers \cap FlakyPeers :
          /\ CanRaise(peer_address)
          /\ th' = [th EXCEPT ![t] = [pc |-> "get", peer |-> peer_address,
                                       val |-> 0]]
    /\ UNCHANGED <<pingvars, raised>>
    /\ SendFrame

\* a send gets a reply that does not decode: the counter is set to 0 and
\* Message.from_bytes raises
SendBadReply(t) ==
    /\ th[t].pc = "idle"
    /\ \E peer_address \in peers \cap FlakyPeers :
          /\ CanRaise(peer_address)
          /\ th' = [th EXCEPT ![t] = [pc |-> "get", peer |-> peer_address,
                                       val |-> 0]]
          /\ peer_failures' = [peer_failures EXCEPT ![peer_address] = 0]
          /\ raised' = [raised EXCEPT ![peer_address] = 0]
          /\ SendDone(peer_address, "bad_reply")
    /\ UNCHANGED peers
    /\ SendFrame

\* self._peer_failures.get(peer_address, 0)
SendGet(t) ==
    /\ th[t].pc = "get"
    /\ th' = [th EXCEPT ![t] = [@ EXCEPT !.pc = "set",
                                         !.val = peer_failures[th[t].peer]]]
    /\ UNCHANGED <<pingvars, raised>>
    /\ SendFrame

\* self._peer_failures[peer_address] = ... + 1
SendSet(t) ==
    /\ th[t].pc = "set"
    /\ peer_failures' = [peer_failures EXCEPT ![th[t].peer] = th[t].val + 1]
    /\ raised' = [raised EXCEPT ![th[t].peer] = @ + 1]
    /\ SendDone(th[t].peer, "exception")
    /\ th' = [th EXCEPT ![t] = IdleThread]
    /\ UNCHANGED peers
    /\ SendFrame

\* _broadcast is called, excluding nobody or one of the peers
Broadcast ==
    /\ \E exclude \in {NoSender} \cup SendPeers :
          /\ ping_msg' = [type |-> "broadcast", sender |-> exclude,
                          payload |-> <<>>]
          /\ ping_out' = peers_broadcast(peers, peer_failures,
                                         "NEW_TRANSACTION", <<>>, exclude)
    /\ peers_before' = peers
    /\ ping_reply' = "none"
    /\ UNCHANGED <<peers, peer_failures, racevars>>
    /\ SendFrame

SendNext ==
    \/ SendPing
    \/ Broadcast
    \/ \E t \in Threads :
          \/ SendReply(t)
          \/ SendNoReply(t)
          \/ SendRaise(t)
          \/ SendBadReply(t)
          \/ SendGet(t)
          \/ SendSet(t)

SpecSend == Init /\ [][SendNext]_vars

----------------------------------------------------------------------------
(* Node.broadcast_transaction and Node.broadcast_block with failing peers *)

broadcast_transaction_needs_peers(bc, ps, pf, transaction) ==
    LET r == add_transaction(bc, transaction)
        out == peers_broadcast(ps, pf, "NEW_TRANSACTION", transaction, NoSender)
    IN  [bc |-> r.bc, out |-> IF r.ret THEN out ELSE {},
         ret |-> r.ret /\ out # {}]

\* Node.broadcast_transaction: the Blockchain after it, the sends started and
\* the result
broadcast_transaction(bc, ps, pf, transaction) ==
    LET r == add_transaction(bc, transaction)
    IN  [bc |-> r.bc,
         out |-> IF r.ret
                 THEN peers_broadcast(ps, pf, "NEW_TRANSACTION", transaction,
                                      NoSender)
                 ELSE {},
         ret |-> r.ret]

\* Node.broadcast_block: the Blockchain after it and the sends started; ret
\* says whether the block was committed
broadcast_block(bc, ps, pf, block) ==
    LET r == add_block(bc, block)
    IN  [bc |-> r.bc,
         out |-> IF r.ret
                 THEN peers_broadcast(ps, pf, "NEW_BLOCK", block, NoSender)
                 ELSE {},
         ret |-> r.ret]

BroadcastFrame == UNCHANGED <<uuid_count, minervars, gossipvars, syncvars>>

\* the call and its results
BroadcastDone(type, payload, r) ==
    /\ ping_msg' = [type |-> type, sender |-> NoSender, payload |-> <<payload>>]
    /\ peers_before' = peers
    /\ ping_out' = r.out
    /\ ping_reply' = IF r.ret THEN "True" ELSE "False"
    /\ UNCHANGED <<peers, peer_failures, racevars>>

NodeBroadcastTransaction ==
    \E tx \in TxUniverse :
        LET r == broadcast_transaction(BC, peers, peer_failures, tx)
        IN  /\ Install(r, "add_transaction")
            /\ BroadcastDone("broadcast_transaction", tx, r)
            /\ BroadcastFrame

\* the blocks mine() hands to broadcast_block(): a block on the tip, one
\* that is not mined, and one whose index is not the height
MinedBlocks ==
    {PeerChainBlock(chain, transactions, fault) :
        transactions \in PeerTxLists, fault \in {"none", "unmined", "index"}}

NodeBroadcastBlock ==
    \E block \in MinedBlocks :
        LET r == broadcast_block(BC, peers, peer_failures, block)
        IN  /\ Len(chain) < MaxChain
            /\ Install(r, "add_block")
            /\ BroadcastDone("broadcast_block", block, r)
            /\ BroadcastFrame

\* one _send_message call from start to return, with no other send under way
SendOutcome ==
    \E peer_address \in peers :
        \E outcome \in IF peer_address \in FlakyPeers /\ CanRaise(peer_address)
                        THEN SendOutcomes ELSE {"reply", "no_reply"} :
            /\ peer_failures' = send_message(peer_failures, peer_address, outcome)
            /\ raised' = send_message(raised, peer_address, outcome)
            /\ SendDone(peer_address, outcome)
            /\ UNCHANGED <<peers, th, bcvars>>
            /\ BroadcastFrame

BroadcastNext ==
    \/ SendPing
    \/ NodeBroadcastTransaction
    \/ NodeBroadcastBlock
    \/ SendOutcome

SpecBroadcast == Init /\ [][BroadcastNext]_vars

----------------------------------------------------------------------------
(* Node._handle_client: one inbound connection, from the bytes to the close *)

\* the JSON object of a message: "ok", or what it lacks
Envelopes == {"ok", "no_type", "no_payload", "no_sender", "unknown_type"}

\* Message.from_json raises unless the three keys are there and the type is
\* one of MessageType
from_json_raises(envelope) == envelope # "ok"

\* the JSON object of a transaction: the fields, whether every key is there,
\* and whether the id is a JSON string
WireTxs ==
    {[data |-> tx, keys |-> k, id_text |-> t] :
        tx \in TxUniverse \cup {Transaction(1, "coinbase", "alice", 0, Now)},
        k \in BOOLEAN, t \in BOOLEAN}

\* Transaction.from_dict raises on a missing key (KeyError) and when
\* __post_init__ rejects the fields; it does not look at the id
tx_from_dict_raises(w) == ~w.keys \/ ~ValidTransaction(w.data)

\* the JSON object of a block: the block, whether every key is there, and the
\* JSON objects of its transactions
WireBlocks ==
    {[data |-> b, keys |-> k, txs_ok |-> t] :
        b \in {PeerChainBlock(chain, transactions, fault) :
                  transactions \in PeerTxLists, fault \in {"none", "unmined"}},
        k \in BOOLEAN, t \in BOOLEAN}

\* Block.from_dict raises on a missing key and when a transaction's does
block_from_dict_raises(w) == ~w.keys \/ ~w.txs_ok

\* the JSON object of a chain: the blocks, and whether every block decodes;
\* the chains are the genesis alone and the node's chain with one more block,
\* mined or not
WireChains ==
    {[data |-> c, blocks_ok |-> k] :
        c \in {<<create_genesis>>}
                 \cup {Append(chain, PeerChainBlock(chain, <<>>, fault)) :
                          fault \in {"none", "unmined"}},
        k \in BOOLEAN}

\* an inbound message of every type with a payload the handler reads
InboundPayloads ==
    {[type |-> "NEW_TRANSACTION", item |-> w] : w \in WireTxs}
        \cup {[type |-> "NEW_BLOCK", item |-> w] : w \in WireBlocks}
        \cup {[type |-> "RESPONSE_CHAIN", item |-> w] : w \in WireChains}
        \cup {[type |-> "PING", item |-> <<>>]}

\* one canonical payload of every type
CanonicalPayloads ==
    {[type |-> "NEW_TRANSACTION",
      item |-> [data |-> TxOf(1), keys |-> TRUE, id_text |-> TRUE]],
     [type |-> "NEW_BLOCK",
      item |-> [data |-> PeerChainBlock(chain, <<>>, "none"), keys |-> TRUE,
                txs_ok |-> TRUE]],
     [type |-> "RESPONSE_CHAIN",
      item |-> [data |-> <<create_genesis>>, blocks_ok |-> TRUE]],
     [type |-> "PING", item |-> <<>>]}

InboundMessage(x, e, k, p) ==
    [type |-> x.type, envelope |-> e, key |-> k, item |-> x.item, sender |-> p]

\* the inbound messages: every payload in a sound JSON object, and a
\* canonical payload in a JSON object that lacks a key, has an unknown type,
\* or lacks the payload key of its type
Inbound ==
    {InboundMessage(x, "ok", TRUE, p) : x \in InboundPayloads, p \in {2, 3}}
        \cup {InboundMessage(x, e, k, 2) :
                 x \in CanonicalPayloads, e \in Envelopes, k \in BOOLEAN}

\* the message does not decode, lacks the payload key of its type, or carries
\* a transaction, block or chain that is not a canonical record
Malformed(m) ==
    \/ m.envelope # "ok"
    \/ ~m.key
    \/ m.type = "NEW_TRANSACTION"
          /\ (tx_from_dict_raises(m.item) \/ ~m.item.id_text)
    \/ m.type = "NEW_BLOCK" /\ block_from_dict_raises(m.item)
    \/ m.type = "RESPONSE_CHAIN" /\ ~m.item.blocks_ok

\* the connection is closed with nothing changed
Dropped(bc, ps) ==
    [bc |-> bc, peers |-> ps, out |-> {}, ret |-> FALSE, raised |-> TRUE,
     reply |-> "none"]

\* _handle_client: Message.from_bytes, _process_message and the reply; raised
\* says that the except clause was reached
handle_client(bc, ps, pf, m) ==
    IF from_json_raises(m.envelope) \/ ~m.key
    THEN Dropped(bc, ps)
    ELSE CASE m.type = "NEW_TRANSACTION" ->
                IF tx_from_dict_raises(m.item)
                THEN Dropped(bc, ps)
                ELSE LET r == add_transaction(bc, m.item.data)
                     IN  IF r.ret /\ ~m.item.id_text
                         THEN \* transaction.id[:8] raises in the log call
                              [bc |-> r.bc, peers |-> ps, out |-> {},
                               ret |-> TRUE, raised |-> TRUE, reply |-> "none"]
                         ELSE [bc |-> r.bc, peers |-> ps,
                               out |-> IF r.ret
                                       THEN peers_broadcast(ps, pf, m.type,
                                                m.item.data, m.sender)
                                       ELSE {},
                               ret |-> r.ret, raised |-> FALSE,
                               reply |-> "none"]
           [] m.type = "NEW_BLOCK" ->
                IF block_from_dict_raises(m.item)
                THEN Dropped(bc, ps)
                ELSE LET r == add_block(bc, m.item.data)
                     IN  [bc |-> r.bc, peers |-> ps,
                          out |-> IF r.ret
                                  THEN peers_broadcast(ps, pf, m.type,
                                           m.item.data, m.sender)
                                  ELSE {},
                          ret |-> r.ret, raised |-> FALSE, reply |-> "none"]
           [] m.type = "RESPONSE_CHAIN" ->
                IF ~m.item.blocks_ok
                THEN Dropped(bc, ps)
                ELSE LET r == replace_chain(bc, m.item.data)
                     IN  [bc |-> r.bc, peers |-> ps, out |-> {},
                          ret |-> r.ret, raised |-> FALSE, reply |-> "none"]
           [] m.type = "PING" ->
                LET r == process_ping(ps, pf, m.sender)
                IN  [bc |-> bc, peers |-> r.peers, out |-> r.out,
                     ret |-> FALSE, raised |-> FALSE, reply |-> r.reply]

\* a connection is accepted and handled
HandleClient ==
    \E m \in Inbound :
        LET r == handle_client(BC, peers, peer_failures, m)
        IN  /\ m.type \in {"NEW_BLOCK", "RESPONSE_CHAIN"}
                  => Len(chain) < MaxChain
            /\ Install(r, m.type)
            /\ peers' = r.peers
            /\ ping_msg' = [type |-> "inbound", sender |-> m.sender,
                            payload |-> <<m.type, Malformed(m), r.raised>>]
            /\ peers_before' = peers
            /\ ping_out' = r.out
            /\ ping_reply' = r.reply
            /\ mining' = (mining /\ ~(m.type = "NEW_BLOCK" /\ r.ret))
            /\ UNCHANGED <<uuid_count, found_block, stop_event, pc, locals,
                           wpc, wnonce, mine_ret, block_broadcast, stop_called,
                           attempts, snap_chain, peer_failures, gossipvars,
                           syncvars, racevars>>

InboundNext == HandleClient

SpecInbound == Init /\ [][InboundNext]_vars

----------------------------------------------------------------------------
(* add_block and replace_chain called by threads that run at the same time *)

ChainFrame ==
    UNCHANGED <<uuid_count, last, minervars, gossipvars, syncvars, pingvars,
                raised>>

\* a thread is given a block for the tip: a NEW_BLOCK handler, or mine()
AddCall(t) ==
    /\ th[t].pc = "idle"
    /\ Len(chain) < MaxChain
    /\ \E transactions \in PeerTxLists :
          th' = [th EXCEPT ![t] =
                    [pc |-> "is_valid_block", peer |-> 0,
                     val |-> PeerChainBlock(chain, transactions, "none")]]
    /\ UNCHANGED <<chain, pending_transactions, pending_ids>>
    /\ ChainFrame

\* if not self.is_valid_block(block): return False
AddValid(t) ==
    /\ th[t].pc = "is_valid_block"
    /\ th' = [th EXCEPT ![t] = IF is_valid_block(BC, th[t].val)
                               THEN [@ EXCEPT !.pc = "mempool"]
                               ELSE IdleThread]
    /\ UNCHANGED <<chain, pending_transactions, pending_ids>>
    /\ ChainFrame

\* the confirmed transactions leave the mempool
AddMempool(t) ==
    /\ th[t].pc = "mempool"
    /\ LET confirmed_ids == TxIds(th[t].val.transactions)
       IN  /\ pending_transactions' =
                  SelectSeq(pending_transactions,
                            LAMBDA tx : tx.id \notin confirmed_ids)
           /\ pending_ids' = pending_ids \ confirmed_ids
    /\ th' = [th EXCEPT ![t] = [@ EXCEPT !.pc = "append"]]
    /\ UNCHANGED chain
    /\ ChainFrame

\* self.chain.append(block)
AddAppend(t) ==
    /\ th[t].pc = "append"
    /\ chain' = Append(chain, th[t].val)
    /\ th' = [th EXCEPT ![t] = IdleThread]
    /\ UNCHANGED <<pending_transactions, pending_ids>>
    /\ ChainFrame

\* a thread is given a peer's chain, the node's chain with one more block: a
\* RESPONSE_CHAIN handler, or sync_blockchain()
ReplaceCall(t) ==
    /\ th[t].pc = "idle"
    /\ Len(chain) < MaxChain
    /\ th' = [th EXCEPT ![t] =
                 [pc |-> "length", peer |-> 0,
                  val |-> Append(chain, PeerChainBlock(chain, <<>>, "none"))]]
    /\ UNCHANGED <<chain, pending_transactions, pending_ids>>
    /\ ChainFrame

\* if len(new_chain) <= len(self.chain): return False
ReplaceLength(t) ==
    /\ th[t].pc = "length"
    /\ th' = [th EXCEPT ![t] = IF Len(th[t].val) <= Len(chain)
                               THEN IdleThread
                               ELSE [@ EXCEPT !.pc = "is_valid_chain"]]
    /\ UNCHANGED <<chain, pending_transactions, pending_ids>>
    /\ ChainFrame

\* if not self.is_valid_chain(new_chain): return False
ReplaceValid(t) ==
    /\ th[t].pc = "is_valid_chain"
    /\ th' = [th EXCEPT ![t] = IF is_valid_chain(th[t].val)
                               THEN [@ EXCEPT !.pc = "assign"]
                               ELSE IdleThread]
    /\ UNCHANGED <<chain, pending_transactions, pending_ids>>
    /\ ChainFrame

\* self.chain = new_chain
ReplaceAssign(t) ==
    /\ th[t].pc = "assign"
    /\ chain' = th[t].val
    /\ th' = [th EXCEPT ![t] = IdleThread]
    /\ UNCHANGED <<pending_transactions, pending_ids>>
    /\ ChainFrame

ChainNext ==
    \E t \in Threads :
        \/ AddCall(t)
        \/ AddValid(t)
        \/ AddMempool(t)
        \/ AddAppend(t)
        \/ ReplaceCall(t)
        \/ ReplaceLength(t)
        \/ ReplaceValid(t)
        \/ ReplaceAssign(t)

SpecChain == Init /\ [][ChainNext]_vars

----------------------------------------------------------------------------
(* A NEW_BLOCK accepted while mine_block runs *)

\* a NEW_BLOCK for the tip arrives after mine_block read the tip and before
\* it returned, and add_block accepts it: self.miner.stop_mining()
AcceptBlock ==
    /\ pc \in {"set_mining", "join"}
    /\ Len(chain) < MaxChain
    /\ LET r == add_block(BC, PeerChainBlock(chain, <<>>, "none"))
       IN  /\ r.ret
           /\ Install(r, "add_block")
    /\ mining' = FALSE
    /\ stop_called' = TRUE
    /\ UNCHANGED <<uuid_count, found_block, stop_event, pc, locals, wpc, wnonce,
                   mine_ret, block_broadcast, attempts, snap_chain, restvars>>

AcceptNext ==
    \/ MineCall
    \/ SnapIndex
    \/ SnapHash
    \/ SetMining
    \/ \E w \in Workers : WCheck(w) \/ WHash(w) \/ WPublish(w) \/ WSet(w)
    \/ Join
    \/ Commit
    \/ AcceptBlock

SpecAccept == MinerInit /\ [][AcceptNext]_vars

----------------------------------------------------------------------------
(* transaction.py, block.py: to_dict and from_dict *)

\* hash="", the default of Block(...): no hash was given
EmptyHash == -1

\* The dictionary of a transaction: the values of its keys id, origem,
\* destino, valor, timestamp, in this order
transaction_to_dict(tx) ==
    <<tx.id, tx.origem, tx.destino, tx.valor, tx.timestamp>>

\* Transaction(**data): None when __post_init__ raises
transaction_from_dict(data) ==
    LET tx == Transaction(data[1], data[2], data[3], data[4], data[5])
    IN  IF ValidTransaction(tx) THEN Some(tx) ELSE None

\* Block(...): None when __post_init__ raises, the hash computed when empty
Block(index, previous_hash, transactions, nonce, timestamp, hash) ==
    IF index < 0 THEN None
    ELSE Some([index |-> index, previous_hash |-> previous_hash,
               transactions |-> transactions, nonce |-> nonce,
               timestamp |-> timestamp,
               hash |-> IF hash = EmptyHash
                        THEN HashOf(index, previous_hash, transactions, nonce,
                                    timestamp)
                        ELSE hash])

\* The dictionary of a block: the values of its keys index, previous_hash,
\* transactions, nonce, timestamp, hash, in this order
block_to_dict(b) ==
    <<b.index, b.previous_hash,
      [i \in 1..Len(b.transactions) |-> transaction_to_dict(b.transactions[i])],
      b.nonce, b.timestamp, b.hash>>

block_from_dict_rehashes(data) ==
    LET txs == [i \in 1..Len(data[3]) |-> transaction_from_dict(data[3][i])]
    IN  IF \E i \in 1..Len(txs) : txs[i] = None THEN None
        ELSE Block(data[1], data[2], [i \in 1..Len(txs) |-> txs[i][1]],
                   data[4], data[5], EmptyHash)

block_from_dict(data) ==
    LET txs == [i \in 1..Len(data[3]) |-> transaction_from_dict(data[3][i])]
    IN  IF \E i \in 1..Len(txs) : txs[i] = None THEN None
        ELSE Block(data[1], data[2], [i \in 1..Len(txs) |-> txs[i][1]],
                   data[4], data[5], data[6])

\* The transactions a client can construct
RoundTripTxs ==
    {tx \in {Transaction(id, origem, destino, valor, timestamp) :
                id \in 1..MaxTxId, origem \in Addresses, destino \in Addresses,
                valor \in {30, 50}, timestamp \in {0, Now}} :
        ValidTransaction(tx)}

\* The blocks a node can hold: built here, or received from a peer
RoundTripBlocks ==
    PeerBlocks
      \cup {NewBlock(1, ZeroHash, <<a, b>>, nonce, Now) :
                a \in TxUniverse, b \in TxUniverse, nonce \in 0..MaxNonce}

RoundTripFrame ==
    UNCHANGED <<bcvars, minervars, gossipvars, syncvars, racevars, peers,
                peer_failures, peers_before, ping_out, ping_reply>>

\* Transaction.from_dict(tx.to_dict())
RoundTripTransaction ==
    \E tx \in RoundTripTxs :
        /\ ping_msg' = [type |-> "transaction_round_trip", sender |-> NoSender,
                        payload |-> <<tx, transaction_from_dict(
                                              transaction_to_dict(tx))>>]
        /\ RoundTripFrame

\* Block.from_dict(b.to_dict())
RoundTripBlock ==
    \E b \in RoundTripBlocks :
        /\ ping_msg' = [type |-> "block_round_trip", sender |-> NoSender,
                        payload |-> <<b, block_from_dict(block_to_dict(b))>>]
        /\ RoundTripFrame

RoundTripNext == RoundTripTransaction \/ RoundTripBlock

SpecRoundTrip == Init /\ [][RoundTripNext]_vars

----------------------------------------------------------------------------
(* protocol.py: Message on the wire *)

\* MessageType, in the order of the enumeration
MessageTypes ==
    <<"NEW_TRANSACTION", "NEW_BLOCK", "REQUEST_CHAIN", "RESPONSE_CHAIN", "PING",
      "PONG", "DISCOVER_PEERS", "PEERS_LIST">>

\* Message(type, payload, sender): the payload a text of JSON digits, the
\* sender one of the peers
Message(type, payload, sender) ==
    [type |-> type, payload |-> payload, sender |-> sender]

WirePayloads ==
    {<<>>} \cup {<<a>> : a \in 0..1} \cup {<<a, b>> : a \in 0..1, b \in 0..1}

WireMessages ==
    {Message(MessageTypes[i], payload, sender) :
        i \in 1..Len(MessageTypes), payload \in WirePayloads, sender \in 1..3}

\* json.dumps({"type", "payload", "sender"}) as UTF-8 bytes: "{", a letter
\* for the type, the digits of the payload, ",", a digit for the sender, "}"
to_json(m) ==
    LET i == CHOOSE i \in 1..Len(MessageTypes) : MessageTypes[i] = m.type
    IN  <<123, 64 + i>> \o [k \in 1..Len(m.payload) |-> 48 + m.payload[k]]
          \o <<44, 48 + m.sender, 125>>

\* Message.from_json: None when json.loads or MessageType(...) raises
from_json(data) ==
    LET n == Len(data)
    IN  IF /\ n >= 5
           /\ data[1] = 123
           /\ data[2] - 64 \in 1..Len(MessageTypes)
           /\ \A k \in 3..(n - 3) : data[k] \in 48..57
           /\ data[n - 2] = 44
           /\ data[n - 1] \in 48..57
           /\ data[n] = 125
        THEN Some(Message(MessageTypes[data[2] - 64],
                          [k \in 1..(n - 5) |-> data[k + 2] - 48],
                          data[n - 1] - 48))
        ELSE None

\* len(encoded).to_bytes(4, "big") + encoded
to_bytes(m) ==
    LET encoded == to_json(m)
        L == Len(encoded)
    IN  <<(L \div 16777216) % 256, (L \div 65536) % 256, (L \div 256) % 256,
          L % 256>> \o encoded

\* data.decode("utf-8") raises on a byte that starts no character; then
\* Message.from_json
from_bytes(data) ==
    IF \E k \in 1..Len(data) : data[k] >= 128 THEN None ELSE from_json(data)

\* int.from_bytes(length_data, "big") of the four bytes read first, then the
\* bytes that follow: what _handle_client hands to Message.from_bytes
recv_frame(bytes) ==
    LET length == 16777216 * bytes[1] + 65536 * bytes[2] + 256 * bytes[3]
                    + bytes[4]
    IN  SubSeq(bytes, 5, Min({Len(bytes), 4 + length}))

WireFrame ==
    UNCHANGED <<bcvars, minervars, gossipvars, syncvars, racevars, peers,
                peer_failures, peers_before, ping_out, ping_reply>>

\* m.to_bytes(), then Message.from_bytes of all of it and of the frame a
\* receiver reads
WireRoundTrip ==
    \E m \in WireMessages :
        /\ ping_msg' = [type |-> "message_round_trip", sender |-> m.sender,
                        payload |-> <<m, to_bytes(m), from_bytes(to_bytes(m)),
                                      from_bytes(recv_frame(to_bytes(m)))>>]
        /\ WireFrame

WireNext == WireRoundTrip

SpecWire == Init /\ [][WireNext]_vars

----------------------------------------------------------------------------
(* transaction.py: construction, and a NEW_TRANSACTION that carries the fields *)

\* the field values a caller or a peer can give
ConstructInputs ==
    {Transaction(id, origem, destino, valor, Now) :
        id \in {1, 2}, origem \in {"", "coinbase", "alice", "bob"},
        destino \in {"", "coinbase", "alice"},
        valor \in {NaN, -1, 0, 30, Infinity}}

ConstructFrame ==
    UNCHANGED <<uuid_count, found_block, stop_event, pc, locals, wpc, wnonce,
                mine_ret, block_broadcast, stop_called, attempts, snap_chain,
                peer_failures, gossipvars, syncvars, racevars>>

\* Transaction(...) called with the fields: the object, or None when
\* __post_init__ raised
ConstructTransaction ==
    \E tx \in ConstructInputs :
        /\ ping_msg' = [type |-> "Transaction", sender |-> NoSender,
                        payload |-> <<tx, transaction_from_dict(
                                              transaction_to_dict(tx))>>]
        /\ UNCHANGED <<bcvars, mining, peers, peers_before, ping_out,
                       ping_reply>>
        /\ ConstructFrame

\* a NEW_TRANSACTION message with the fields is handled
ReceiveTransaction ==
    \E tx \in ConstructInputs, sender \in {2} :
        LET m == InboundMessage(
                     [type |-> "NEW_TRANSACTION",
                      item |-> [data |-> tx, keys |-> TRUE, id_text |-> TRUE]],
                     "ok", TRUE, sender)
            r == handle_client(BC, peers, peer_failures, m)
        IN  /\ Install(r, m.type)
            /\ peers' = r.peers
            /\ ping_msg' = [type |-> "receive_transaction", sender |-> sender,
                            payload |-> <<tx, r.raised, r.ret>>]
            /\ peers_before' = peers
            /\ ping_out' = r.out
            /\ ping_reply' = r.reply
            /\ UNCHANGED mining
            /\ ConstructFrame

ConstructNext == ConstructTransaction \/ ReceiveTransaction

SpecConstruct == Init /\ [][ConstructNext]_vars

----------------------------------------------------------------------------
(* miner.py: what mine_block puts in the block, on mempools of several      *)
(* transactions                                                             *)

\* payments from a system address to alice or to the miner
ContentTxs ==
    {Transaction(id, "coinbase", destino, valor, Now) :
        id \in 1..MaxTxId, destino \in {"alice", MinerAddress},
        valor \in {30, REWARD}}

\* the mempools add_transaction builds from them, of one or two transactions
ContentMempools ==
    {<<a>> : a \in ContentTxs}
        \cup {s \in {<<a, b>> : a \in ContentTxs, b \in ContentTxs} :
                 s[1].id # s[2].id}

ContentInit ==
    /\ chain = <<create_genesis>>
    /\ pending_transactions \in ContentMempools
    /\ pending_ids = {pending_transactions[i].id :
                        i \in 1..Len(pending_transactions)}
    /\ uuid_count = 0
    /\ last = "add_transaction"
    /\ MinerIdle

\* one mine() call while transactions are added
ContentNext ==
    \/ MineCall
    \/ SnapIndex
    \/ SnapHash
    \/ SetMining
    \/ RunWorkers
    \/ Join
    \/ Commit
    \/ AddTransaction

SpecContent == ContentInit /\ [][ContentNext]_vars

----------------------------------------------------------------------------
(* Gossip of transactions with every send delivered and no block mined *)

\* the transactions made at the nodes: payments from a system address
LiveTxs == {Transaction(id, "coinbase", "alice", REWARD, Now) : id \in {1, 2}}

\* broadcast_transaction(tx) at node n, for a transaction made at n
LiveBroadcastTransaction(n) ==
    \E tx \in LiveTxs :
        LET r == add_transaction(nodes[n], tx)
        IN  /\ \A m \in TxMessages : m.payload.id # tx.id
            /\ r.ret
            /\ nodes' = [nodes EXCEPT ![n] = r.bc]
            /\ msgs' = msgs \cup broadcast(n, "NEW_TRANSACTION", tx, NoSender)
            /\ UNCHANGED <<delivered, uuid_count>>
            /\ GossipFrame

\* some handler thread takes its message
DeliverSome == \E m \in InFlight : Deliver(m)

LiveNext ==
    \/ \E n \in Nodes : LiveBroadcastTransaction(n)
    \/ DeliverSome

\* every connection accepted gets a handler thread that runs to its end
SpecGossipLive == Init /\ [][LiveNext]_vars /\ WF_vars(DeliverSome)

----------------------------------------------------------------------------
(* sync_blockchain() at every node of a network where each node has the     *)
(* others as peers and every request is answered                            *)

\* the chains a node can hold: the valid chains without transactions after
\* the first block
HeldChains == {c \in SyncCandidates : is_valid_chain(c)}

\* mining has stopped: every node holds a chain, nothing is in flight
ConvergeInit ==
    /\ chain = <<create_genesis>>
    /\ pending_transactions = <<>>
    /\ pending_ids = {}
    /\ uuid_count = 0
    /\ last = "init"
    /\ mining = FALSE
    /\ found_block = None
    /\ stop_event = FALSE
    /\ pc = "idle"
    /\ locals = [transactions |-> <<>>, block_index |-> 0, prev_hash |-> ZeroHash]
    /\ wpc = [w \in 0..(WORKERS - 1) |-> "done"]
    /\ wnonce = [w \in 0..(WORKERS - 1) |-> w]
    /\ mine_ret = None
    /\ block_broadcast = {}
    /\ stop_called = FALSE
    /\ attempts = [w \in 0..(WORKERS - 1) |-> 0]
    /\ snap_chain = <<create_genesis>>
    /\ SyncIdle
    /\ PingIdle
    /\ RaceIdle
    /\ msgs = {}
    /\ delivered = {}
    /\ \E held \in [Nodes -> HeldChains] :
          \* the nodes are alike: they are numbered by the length they hold
          /\ \A n \in Nodes : \A k \in Nodes :
                n < k => Len(held[n]) <= Len(held[k])
          /\ nodes = [n \in Nodes |->
                        [chain |-> held[n], pending_transactions |-> <<>>,
                         pending_ids |-> {}]]
          /\ nsync = [n \in Nodes |->
                        [pc |-> "idle", best_chain |-> None, best_length |-> 0,
                         polled |-> {}, before |-> held[n]]]

ConvergeFrame ==
    UNCHANGED <<bcvars, minervars, syncvars, pingvars, racevars, msgs,
                delivered>>

\* best_chain = None; best_length = len(self.blockchain.chain)
NodeSyncStart(n) ==
    /\ nsync[n].pc = "idle"
    /\ nsync' = [nsync EXCEPT ![n].pc = "polling", ![n].best_chain = None,
                              ![n].best_length = Len(nodes[n].chain),
                              ![n].polled = {}]
    /\ UNCHANGED nodes
    /\ ConvergeFrame

\* the answer of peer to REQUEST_CHAIN: its chain through to_dict and
\* from_dict
response_chain(peer) ==
    [i \in 1..Len(nodes[peer].chain) |->
        block_from_dict(block_to_dict(nodes[peer].chain[i]))[1]]

\* a poll that keeps a valid candidate longer than the node's chain, whatever
\* was kept before
NodeSyncPoll_keeps_last(n, peer) ==
    /\ nsync[n].pc = "polling"
    /\ peer \in Peers(n) \ nsync[n].polled
    /\ LET candidate == response_chain(peer)
       IN  IF Len(candidate) > Len(nodes[n].chain) /\ is_valid_chain(candidate)
           THEN nsync' = [nsync EXCEPT ![n].polled = @ \cup {peer},
                                       ![n].best_chain = Some(candidate),
                                       ![n].best_length = Len(candidate)]
           ELSE nsync' = [nsync EXCEPT ![n].polled = @ \cup {peer}]
    /\ UNCHANGED nodes
    /\ ConvergeFrame

\* one peer of the loop, in the order the peer set is iterated: the candidate
\* is kept when it is longer than the best so far and valid
NodeSyncPoll(n, peer) ==
    /\ nsync[n].pc = "polling"
    /\ peer \in Peers(n) \ nsync[n].polled
    /\ LET candidate == response_chain(peer)
       IN  IF Len(candidate) > nsync[n].best_length /\ is_valid_chain(candidate)
           THEN nsync' = [nsync EXCEPT ![n].polled = @ \cup {peer},
                                       ![n].best_chain = Some(candidate),
                                       ![n].best_length = Len(candidate)]
           ELSE nsync' = [nsync EXCEPT ![n].polled = @ \cup {peer}]
    /\ UNCHANGED nodes
    /\ ConvergeFrame

\* after the loop: if best_chain: self.blockchain.replace_chain(best_chain)
NodeSyncFinish(n) ==
    /\ nsync[n].pc = "polling"
    /\ nsync[n].polled = Peers(n)
    /\ nsync' = [nsync EXCEPT ![n].pc = "done"]
    /\ IF nsync[n].best_chain = None
       THEN UNCHANGED nodes
       ELSE nodes' = [nodes EXCEPT ![n] =
                         replace_chain(nodes[n], nsync[n].best_chain[1]).bc]
    /\ ConvergeFrame

ConvergeNext ==
    \/ \E n \in Nodes : NodeSyncStart(n)
    \/ \E n \in Nodes : \E peer \in Nodes : NodeSyncPoll(n, peer)
    \/ \E n \in Nodes : NodeSyncFinish(n)

\* the nodes run sync_blockchain() once each, at the same time
SpecConverge == ConvergeInit /\ [][ConvergeNext]_vars

----------------------------------------------------------------------------
(* add_transaction called by handler threads that run at the same time *)

TxRaceFrame ==
    UNCHANGED <<chain, uuid_count, last, minervars, gossipvars, syncvars, peers,
                peer_failures, ping_msg, peers_before, ping_reply, raised>>

\* a handler thread is given a NEW_TRANSACTION
TxCall(t) ==
    /\ th[t].pc = "idle"
    /\ \E tx \in TxUniverse :
          th' = [th EXCEPT ![t] = [pc |-> "pending_ids", peer |-> 0, val |-> tx]]
    /\ UNCHANGED <<pending_transactions, pending_ids, ping_out>>
    /\ TxRaceFrame

\* if transaction.id in self._pending_ids: return False
TxPendingIds(t) ==
    /\ th[t].pc = "pending_ids"
    /\ th' = [th EXCEPT ![t] = IF th[t].val.id \in pending_ids
                               THEN IdleThread
                               ELSE [@ EXCEPT !.pc = "chain"]]
    /\ UNCHANGED <<pending_transactions, pending_ids, ping_out>>
    /\ TxRaceFrame

\* the id is looked for in the blocks, then the balance of origem is checked
TxChain(t) ==
    /\ th[t].pc = "chain"
    /\ th' = [th EXCEPT ![t] =
                 IF \/ th[t].val.id \in TxIds(ChainTxs(chain))
                    \/ /\ th[t].val.origem \notin {"genesis", "coinbase"}
                       /\ get_balance(BC, th[t].val.origem) < th[t].val.valor
                 THEN IdleThread
                 ELSE [@ EXCEPT !.pc = "append"]]
    /\ UNCHANGED <<pending_transactions, pending_ids, ping_out>>
    /\ TxRaceFrame

\* self.pending_transactions.append(transaction)
TxAppend(t) ==
    /\ th[t].pc = "append"
    /\ pending_transactions' = Append(pending_transactions, th[t].val)
    /\ th' = [th EXCEPT ![t] = [@ EXCEPT !.pc = "add"]]
    /\ UNCHANGED <<pending_ids, ping_out>>
    /\ TxRaceFrame

\* self._pending_ids.add(transaction.id); return True
TxAdd(t) ==
    /\ th[t].pc = "add"
    /\ pending_ids' = pending_ids \cup {th[t].val.id}
    /\ th' = [th EXCEPT ![t] = [@ EXCEPT !.pc = "broadcast"]]
    /\ UNCHANGED <<pending_transactions, ping_out>>
    /\ TxRaceFrame

\* the handler re-broadcasts what add_transaction accepted; ping_out keeps
\* the broadcasts of each thread apart
TxBroadcast(t) ==
    /\ th[t].pc = "broadcast"
    /\ ping_out' = ping_out \cup {[by |-> t, type |-> "NEW_TRANSACTION",
                                   payload |-> th[t].val]}
    /\ th' = [th EXCEPT ![t] = IdleThread]
    /\ UNCHANGED <<pending_transactions, pending_ids>>
    /\ TxRaceFrame

TxRaceNext ==
    \E t \in Threads :
        \/ TxCall(t)
        \/ TxPendingIds(t)
        \/ TxChain(t)
        \/ TxAppend(t)
        \/ TxAdd(t)
        \/ TxBroadcast(t)

SpecTxRace == Init /\ [][TxRaceNext]_vars

----------------------------------------------------------------------------
(* The operations that change the chain, one at a time, with the blocks the *)
(* node broadcast                                                           *)

GrowthFrame ==
    UNCHANGED <<mining, found_block, stop_event, pc, locals, wpc, wnonce,
                mine_ret, stop_called, attempts, snap_chain, restvars>>

\* the blocks a peer sends: a block for the tip with at most one thing wrong,
\* or a block the node broadcast before
GrowBlocks ==
    {PeerChainBlock(chain, transactions, fault) :
        transactions \in PeerTxLists, fault \in ChainFaults}
      \cup block_broadcast

\* NEW_BLOCK or add_block: the block is re-broadcast when add_block accepts
GrowAddBlock ==
    \E block \in GrowBlocks :
        LET r == add_block(BC, block)
        IN  /\ Len(chain) < MaxChain
            /\ Install(r, "add_block")
            /\ block_broadcast' = IF r.ret THEN block_broadcast \cup {block}
                                  ELSE block_broadcast
            /\ UNCHANGED uuid_count
            /\ GrowthFrame

\* mine(): the mined block is committed and broadcast by broadcast_block
GrowMine ==
    /\ pending_transactions # <<>>
    /\ Len(chain) < MaxChain
    /\ \E worker_id \in 0..(WORKERS - 1) :
          /\ FoundNonces(BC, NextUuid, worker_id) # {}
          /\ LET block == mine_block(BC, NextUuid, worker_id)
                 r == add_block(BC, block)
             IN  /\ Install(r, "mine")
                 /\ block_broadcast' = IF r.ret THEN block_broadcast \cup {block}
                                       ELSE block_broadcast
    /\ uuid_count' = uuid_count + 1
    /\ GrowthFrame

\* RESPONSE_CHAIN, sync_blockchain or replace_chain: nothing is broadcast
GrowReplaceChain ==
    \E new_chain \in SyncCandidates :
        /\ Install(replace_chain(BC, new_chain), "replace_chain")
        /\ UNCHANGED <<uuid_count, block_broadcast>>
        /\ GrowthFrame

GrowthNext == AddTransaction \/ GrowAddBlock \/ GrowMine \/ GrowReplaceChain

SpecGrowth == Init /\ [][GrowthNext]_vars

----------------------------------------------------------------------------
(* Honest nodes: transactions enter a mempool through add_transaction and   *)
(* blocks come from mine_block on a node's own mempool                      *)

\* the blocks mined in this network
MaxSpendBlocks == 2

\* a payment to alice and two spends of alice, made at the node named
SpendTxs ==
    {[at |-> 1, tx |-> Transaction(1, "coinbase", "alice", REWARD, Now)],
     [at |-> 1, tx |-> Transaction(2, "alice", "bob", 30, Now)],
     [at |-> 2, tx |-> Transaction(3, "alice", "bob", 30, Now)]}

\* the uuid of the next reward transaction, apart from the ids above
SpendUuid == Cardinality(SpendTxs) + uuid_count + 1

\* broadcast_transaction(tx) at the node where the transaction is made
SpendBroadcastTransaction ==
    \E s \in SpendTxs :
        LET r == add_transaction(nodes[s.at], s.tx)
        IN  /\ \A m \in TxMessages : m.payload.id # s.tx.id
            /\ r.ret
            /\ nodes' = [nodes EXCEPT ![s.at] = r.bc]
            /\ msgs' = msgs \cup broadcast(s.at, "NEW_TRANSACTION", s.tx, NoSender)
            /\ UNCHANGED <<delivered, uuid_count>>
            /\ GossipFrame

\* mine() at node n: the mined block is committed and broadcast
SpendMine(n) ==
    /\ nodes[n].pending_transactions # <<>>
    /\ Cardinality(BlocksSent) < MaxSpendBlocks
    /\ \E worker_id \in Workers :
          /\ FoundNonces(nodes[n], SpendUuid, worker_id) # {}
          /\ LET block == mine_block(nodes[n], SpendUuid, worker_id)
                 r == add_block(nodes[n], block)
             IN  /\ nodes' = [nodes EXCEPT ![n] = r.bc]
                 /\ msgs' = msgs \cup broadcast(n, "NEW_BLOCK", block, NoSender)
    /\ uuid_count' = uuid_count + 1
    /\ UNCHANGED delivered
    /\ GossipFrame

\* the handler threads of nodes 1 and 2 take their messages; node 3 is a
\* peer whose handlers have not run yet
SpendDeliver == \E m \in InFlight : m.to \in {1, 2} /\ Deliver(m)

SpendNext ==
    \/ SpendBroadcastTransaction
    \/ \E n \in {1, 2} : SpendMine(n)
    \/ SpendDeliver

SpecSpend == Init /\ [][SpendNext]_vars

----------------------------------------------------------------------------
(* Properties *)

\* balance of an address over the committed blocks only
ConfirmedBalance(ch, address) ==
    SumValor(SelectDestino(ChainTxs(ch), address))
        - SumValor(SelectOrigem(ChainTxs(ch), address))

\* sum of the pending transactions an address sends
PendingOutgoing(pending, address) == SumValor(SelectOrigem(pending, address))

PendingSenders == {pending_transactions[i].origem : i \in 1..Len(pending_transactions)}

\* C1: every committed block after the first links to the hash of the block
\* before it, has a hash that meets the difficulty, and has the hash that its
\* content recomputes to.
C1_CommittedBlocksValid ==
    \A i \in 2..Len(chain) :
        /\ chain[i].previous_hash = chain[i - 1].hash
        /\ chain[i].hash < DIFFICULTY
        /\ chain[i].hash =
              HashOf(chain[i].index, chain[i].previous_hash, chain[i].transactions,
                     chain[i].nonce, chain[i].timestamp)

\* a full-length chain has just been adopted from a peer
C1_Witness ==
    /\ last = "replace_chain"
    /\ Len(chain) = MaxChain

\* C2: the chain is never empty and its first block is the canonical genesis,
\* field by field, also after a peer's candidate chain was adopted.
C2_FirstBlockIsGenesis ==
    /\ Len(chain) >= 1
    /\ chain[1] = create_genesis

\* C3: no transaction id is in two committed blocks.
C3_TxInAtMostOneBlock ==
    \A i \in 1..Len(chain) : \A j \in 1..Len(chain) :
        i < j => TxIds(chain[i].transactions) \cap TxIds(chain[j].transactions) = {}

\* C4: no transaction of the mempool is in a committed block.
C4_MempoolNotCommitted ==
    TxIds(pending_transactions) \cap TxIds(ChainTxs(chain)) = {}

\* C5: every non-system sender of a pending transaction has a confirmed
\* balance that covers all it has pending.
C5_MempoolSolvent ==
    \A a \in PendingSenders \ SYSTEM_ADDRESSES :
        ConfirmedBalance(chain, a) - PendingOutgoing(pending_transactions, a) >= 0

\* C6: replace_chain(c) returns true and installs c exactly when c is longer
\* than the chain and valid; otherwise it returns false and changes neither
\* chain nor mempool (so a candidate of equal length never wins).
C6_ReplaceChainContract ==
    \A c \in CandidateChains :
        LET r == replace_chain(BC, c)
        IN  IF Len(c) > Len(chain) /\ is_valid_chain(c)
            THEN r.ret /\ r.bc.chain = c
            ELSE ~r.ret /\ r.bc = BC

\* a longer valid chain was adopted over a chain that had blocks of its own, and
\* a valid rival of the new length exists, which replace_chain now refuses
C6_Witness ==
    /\ last = "replace_chain"
    /\ Len(chain) >= 2
    /\ pending_transactions # <<>>
    /\ \E c \in CandidateChains :
          Len(c) = Len(chain) /\ c # chain /\ is_valid_chain(c)

\* C7: add_transaction(tx) returns false and changes nothing when tx.id is
\* pending, or committed, or the non-system sender's available balance
\* (confirmed minus pending outgoing) is below tx.valor; otherwise it appends
\* tx to the mempool, records its id and returns true.
C7_AddTransactionContract ==
    \A tx \in TxUniverse :
        LET r == add_transaction(BC, tx)
            available ==
                ConfirmedBalance(chain, tx.origem)
                    - PendingOutgoing(pending_transactions, tx.origem)
            rejected ==
                \/ tx.id \in pending_ids
                \/ tx.id \in TxIds(ChainTxs(chain))
                \/ tx.origem \notin SYSTEM_ADDRESSES /\ available < tx.valor
        IN  IF rejected
            THEN ~r.ret /\ r.bc = BC
            ELSE /\ r.ret
                 /\ r.bc.chain = chain
                 /\ r.bc.pending_transactions = Append(pending_transactions, tx)
                 /\ r.bc.pending_ids = pending_ids \cup {tx.id}

\* C8: add_block(b) accepts exactly when b.index is the chain's length, b links
\* to the tip, b.hash meets the difficulty and is the recomputed hash; it then
\* appends b and drops from the mempool exactly the transactions whose id is in
\* b, keeping the others in order; otherwise it returns false and changes nothing.
C8_AddBlockContract ==
    \A b \in PeerBlocks :
        LET r == add_block(BC, b)
            accepted ==
                /\ b.index = Len(chain)
                /\ b.previous_hash = chain[Len(chain)].hash
                /\ b.hash < DIFFICULTY
                /\ b.hash = HashOf(b.index, b.previous_hash, b.transactions,
                                   b.nonce, b.timestamp)
            kept == {i \in 1..Len(pending_transactions) :
                        \A k \in 1..Len(b.transactions) :
                            b.transactions[k].id # pending_transactions[i].id}
        IN  IF accepted
            THEN /\ r.ret
                 /\ r.bc.chain = Append(chain, b)
                 /\ Len(r.bc.pending_transactions) = Cardinality(kept)
                 /\ \A i \in kept :
                       r.bc.pending_transactions[Cardinality({k \in kept : k <= i})]
                           = pending_transactions[i]
            ELSE ~r.ret /\ r.bc = BC

\* a peer's block carrying the pending transaction 1 was accepted on top of the
\* genesis: transaction 1 left the mempool and transaction 2 stayed
C8_Witness ==
    /\ last = "add_block"
    /\ chain = <<create_genesis, chain[Len(chain)]>>
    /\ chain[Len(chain)].transactions = <<TxOf(1)>>
    /\ pending_transactions = <<TxOf(2)>>

\* C9: get_balance is received minus sent over the committed transactions;
\* a transaction that is only in the mempool does not change it.
C9_BalanceIsConfirmedOnly ==
    \A a \in Addresses : get_balance(BC, a) = ConfirmedBalance(chain, a)

\* C10: funds that are only pending cannot be spent: a spend from a non-system
\* sender is accepted only if the sender has a confirmed balance.
C10_PendingFundsNotSpendable ==
    LET tx == pending_transactions[Len(pending_transactions)]
    IN  (/\ last = "add_transaction"
         /\ tx.origem \notin SYSTEM_ADDRESSES)
            => ConfirmedBalance(chain, tx.origem) >= tx.valor

\* C11: pending outgoing amounts are reserved: a spend from a non-system sender
\* is accepted only while the sender's pending outgoing total plus the new valor
\* is at most the sender's confirmed balance.
C11_PendingOutgoingReserved ==
    \A tx \in TxUniverse :
        (/\ tx.origem \notin SYSTEM_ADDRESSES
         /\ add_transaction(BC, tx).ret)
            => PendingOutgoing(pending_transactions, tx.origem) + tx.valor
                  <= ConfirmedBalance(chain, tx.origem)

\* C12: a block mined against a tip snapshot is rejected on commit whenever the
\* chain changed after the snapshot: the commit step of mine() then leaves the
\* chain and the mempool as they are and broadcasts nothing.
C12_StaleBlockRejected ==
    [][(/\ pc = "commit"
        /\ pc' = "returned"
        /\ mine_ret # None
        /\ chain # snap_chain)
          => /\ chain' = chain
             /\ pending_transactions' = pending_transactions
             /\ block_broadcast' = block_broadcast]_vars

\* mine() returned a block mined on a tip that replace_chain had replaced in
\* the meantime, and the block is not in the chain
C12_Witness ==
    /\ pc = "returned"
    /\ mine_ret # None
    /\ last = "replace_chain"
    /\ chain # snap_chain
    /\ Len(chain) > Len(snap_chain)
    /\ \A i \in 1..Len(chain) : chain[i] # mine_ret[1]

\* C13: what mine_block returns is None or a block whose hash meets the
\* difficulty and is the hash its content recomputes to, and which extends the
\* tip read at the start of the call, whatever the workers and stop_mining() do.
C13_MinedBlockValid ==
    (pc \in {"commit", "returned"} /\ mine_ret # None)
        => /\ mine_ret[1].hash < DIFFICULTY
           /\ mine_ret[1].hash =
                 HashOf(mine_ret[1].index, mine_ret[1].previous_hash,
                        mine_ret[1].transactions, mine_ret[1].nonce,
                        mine_ret[1].timestamp)
           /\ mine_ret[1].index = Len(snap_chain)
           /\ mine_ret[1].previous_hash = snap_chain[Len(snap_chain)].hash

\* mine_block returned a block although stop_mining() was called during the call
C13_Witness ==
    /\ pc = "commit"
    /\ mine_ret # None
    /\ stop_called

\* C14: first finder wins: once the found-block slot holds a block it is not
\* written again, and mine_block returns what the slot holds.
C14_FirstFinderWins ==
    /\ [][found_block # None => found_block' = found_block]_vars
    /\ [](pc \in {"commit", "returned"} => mine_ret = found_block)

\* a second finder went through the lock and the slot holds another worker's block
C14_Witness ==
    \E w \in Workers :
        /\ wpc[w] = "set"
        /\ found_block # None
        /\ found_block # Some(WorkerBlock(w))

\* C15: once stop_mining() was called after mine_block was called, or a worker
\* signalled its publication, every worker makes at most one more hash attempt.
C15_StopBoundsAttempts ==
    \A w \in Workers : attempts[w] <= 1

\* C19: when mine() returns a block, the block is in the chain at its index and
\* a NEW_BLOCK carrying it was broadcast.
C19_ReturnedBlockCommitted ==
    [][(pc = "commit" /\ pc' = "returned" /\ mine_ret' # None)
          => /\ mine_ret'[1].index + 1 <= Len(chain')
             /\ chain'[mine_ret'[1].index + 1] = mine_ret'[1]
             /\ mine_ret'[1] \in block_broadcast']_vars

\* the payload of a gossip message as the receiver's Blockchain decides on it
Accepts(bc, m) ==
    IF m.type = "NEW_TRANSACTION" THEN add_transaction(bc, m.payload).ret
    ELSE add_block(bc, m.payload).ret

\* what a peer can send to node n besides the messages under way: any
\* transaction, spendable or not, and a block on n's tip that the peer mined,
\* did not mine, or gave a hash it did not compute
PeerMessagesTo(n) ==
    {[type |-> "NEW_TRANSACTION", payload |-> tx, sender |-> p, to |-> n,
      via |-> NoSender] : tx \in TxUniverse, p \in Peers(n)}
    \cup {[type |-> "NEW_BLOCK",
            payload |-> PeerChainBlock(nodes[n].chain, <<>>, fault),
            sender |-> p, to |-> n, via |-> NoSender] :
              fault \in {"none", "unmined", "forged"}, p \in Peers(n)}

PeerMessages == UNION {PeerMessagesTo(n) : n \in Nodes}

Origin(id) ==
    CHOOSE n \in Nodes :
        \E m \in TxMessages : m.payload.id = id /\ m.sender = n /\ m.via = NoSender

\* the number of entries with this id in a node's mempool
Entries(n, id) ==
    Cardinality({i \in 1..Len(nodes[n].pending_transactions) :
                    nodes[n].pending_transactions[i].id = id})

\* the transaction ids that were broadcast
GossipIds == {m.payload.id : m \in TxMessages}

\* every message was handled, and no block was mined
Quiescent == InFlight = {} /\ BlocksSent = {}

C18_SyncAdoptsLongestValid ==
    sync_pc = "done"
        => /\ is_valid_chain(chain)
           /\ Len(chain) = Max({Len(sync_start), max_valid})
           /\ max_valid <= Len(sync_start) => chain = sync_start

\* the node polled a peer with a longer valid chain and a peer with a still
\* longer invalid one, and adopted the valid one
C18_Witness ==
    /\ sync_pc = "done"
    /\ polled = MaxSyncPeers
    /\ max_valid > Len(sync_start)
    /\ max_seen > max_valid
    /\ Len(chain) = max_valid

\* C20: after a PING is handled the reply is PONG; a sender that is neither
\* empty nor the node itself is in the peer set unless the set was full; and a
\* one-element PEERS_LIST naming the sender went to the other peers only, and
\* only when the sender was added to the peer set by this PING.
C20_PingDispatch ==
    ping_msg.type = "PING"
        => LET sender == ping_msg.sender
               added == sender \in peers \ peers_before
           IN  /\ ping_reply = "PONG"
               /\ sender \in {NoSender, SelfAddress} => peers = peers_before
               /\ sender \notin {NoSender, SelfAddress}
                    => peers = IF Cardinality(peers_before) >= MAX_PEERS
                               THEN peers_before
                               ELSE peers_before \cup {sender}
               /\ ping_out # {} => added
               /\ \A m \in ping_out :
                     /\ m.type = "PEERS_LIST"
                     /\ m.payload = <<sender>>
                     /\ m.to \in peers \ {sender}

\* C21: the node's own address is never in its peer set.
C21_NeverRegistersSelf == SelfAddress \notin peers

\* a connect_to_peer() succeeded whose DISCOVER_PEERS reply named the node
\* itself and a new peer, and the peer connected to and the new peer were
\* registered
C21_Witness ==
    /\ ping_msg.type = "connect_to_peer"
    /\ ping_reply = "True"
    /\ \E i \in 1..Len(ping_msg.payload) : ping_msg.payload[i] = SelfAddress
    /\ Cardinality(peers) = Cardinality(peers_before) + 2

\* C22: the peer set never holds more than MAX_PEERS addresses, also when
\* threads register peers at the same time.
C22_PeerSetBounded == Cardinality(peers) <= MAX_PEERS

\* C23: when no send is under way, every peer's failure counter is the number
\* of sends to it that raised since it was last set to 0, and it is 0 after a
\* send that was delivered, with or without a reply.
C23_FailureAccounting ==
    (\A t \in Threads : th[t].pc = "idle")
        => /\ \A p \in PeerAddresses : peer_failures[p] = raised[p]
           /\ (/\ ping_msg.type = "send_message"
               /\ ping_msg.payload \in {<<"reply">>, <<"no_reply">>})
                 => peer_failures[ping_msg.sender] = 0

\* C24: a broadcast starts one send to every registered peer that is not the
\* excluded one and whose failure counter is below MAX_FAILURES, and to no
\* other; so a peer to which MAX_FAILURES sends have raised since its counter
\* was last set to 0 gets no broadcast.
C24_BroadcastSkipsFailedPeers ==
    ping_msg.type = "broadcast"
        => LET exclude == ping_msg.sender
               to == {m.to : m \in ping_out}
           IN  /\ exclude \notin to
               /\ to = {p \in peers : /\ p # exclude
                                       /\ peer_failures[p] < MAX_FAILURES}
               /\ Cardinality(ping_out) = Cardinality(to)
               /\ \A p \in to : raised[p] < MAX_FAILURES

\* the peers whose failure counter changes in a step
FailureChanges == {p \in PeerAddresses : peer_failures'[p] # peer_failures[p]}

\* C25: broadcast_transaction() returns true exactly when add_transaction
\* accepts the transaction, and broadcast_block() commits the block exactly
\* when add_block accepts it, whatever the peers and their failure counters
\* are; and a step that changes a failure counter changes the counter of one
\* peer and leaves the chain and the mempool as they were.
C25_FireAndForget ==
    [][/\ (ping_msg' # ping_msg /\ ping_msg'.type = "broadcast_transaction")
          => LET r == add_transaction(BC, ping_msg'.payload[1])
             IN  /\ ping_reply' = IF r.ret THEN "True" ELSE "False"
                 /\ chain' = r.bc.chain
                 /\ pending_transactions' = r.bc.pending_transactions
       /\ (ping_msg' # ping_msg /\ ping_msg'.type = "broadcast_block")
          => LET r == add_block(BC, ping_msg'.payload[1])
             IN  /\ ping_reply' = IF r.ret THEN "True" ELSE "False"
                 /\ chain' = r.bc.chain
                 /\ pending_transactions' = r.bc.pending_transactions
       /\ FailureChanges # {}
          => /\ Cardinality(FailureChanges) = 1
             /\ UNCHANGED <<chain, pending_transactions, pending_ids>>]_vars

\* broadcast_transaction() has returned true although the only peer has failed
\* MAX_FAILURES times and no send was started
C25_Witness ==
    /\ ping_msg.type = "broadcast_transaction"
    /\ ping_reply = "True"
    /\ peers # {}
    /\ \A p \in peers : peer_failures[p] >= MAX_FAILURES
    /\ ping_out = {}
    /\ ping_msg.payload[1] = pending_transactions[Len(pending_transactions)]

\* C26: handling a malformed inbound message leaves the chain, the mempool
\* and the peer set as they were and starts no send.
C26_MalformedDropped ==
    [][(/\ ping_msg' # ping_msg
        /\ ping_msg'.type = "inbound"
        /\ ping_msg'.payload[2])
          => /\ UNCHANGED <<chain, pending_transactions, pending_ids, peers>>
             /\ ping_out' = {}]_vars

\* C27: also when threads call add_block and replace_chain at the same time,
\* every block of the chain has its position as index and the hash of the
\* block before it as previous_hash, and the chain never gets shorter.
C27_MutationsSerialized ==
    /\ [](\A i \in 1..Len(chain) :
             /\ chain[i].index = i - 1
             /\ i > 1 => chain[i].previous_hash = chain[i - 1].hash)
    /\ [][Len(chain') >= Len(chain)]_vars

\* C28: once a NEW_BLOCK was accepted after mine_block read the tip, every
\* worker of that call makes at most one more hash attempt, and none is still
\* searching on the superseded tip after that attempt.
C28_AcceptAbandonsMining ==
    (stop_called /\ Len(chain) > locals.block_index)
        => \A w \in Workers :
              /\ attempts[w] <= 1
              /\ attempts[w] = 1 => wpc[w] # "hash"

\* C29: the index of every block of the chain is its position in the chain.
C29_IndexIsPosition ==
    \A i \in 1..Len(chain) : chain[i].index = i - 1

\* C30: serialisation round-trips. Transaction.from_dict(tx.to_dict()) of a
\* valid transaction is a transaction equal to tx (same id) with the same
\* origem, destino, valor and timestamp; Block.from_dict(b.to_dict()) is a
\* block with the hash b has, and recomputing its hash gives what recomputing
\* the hash of b gives, which is the hash of b whenever b holds its own hash.
C30_RoundTrips ==
    /\ ping_msg.type = "transaction_round_trip"
         => LET tx == ping_msg.payload[1]
                back == ping_msg.payload[2]
            IN  /\ back # None
                /\ back[1].id = tx.id
                /\ back[1].origem = tx.origem
                /\ back[1].destino = tx.destino
                /\ back[1].valor = tx.valor
                /\ back[1].timestamp = tx.timestamp
    /\ ping_msg.type = "block_round_trip"
         => LET b == ping_msg.payload[1]
                back == ping_msg.payload[2]
            IN  /\ back # None
                /\ back[1].hash = b.hash
                /\ calculate_hash(back[1]) = calculate_hash(b)
                /\ b.hash = calculate_hash(b)
                     => calculate_hash(back[1]) = b.hash

C30_Witness ==
    /\ ping_msg.type = "block_round_trip"
    /\ ping_msg.payload[1].transactions # <<>>
    /\ ping_msg.payload[1].hash # calculate_hash(ping_msg.payload[1])
    /\ ping_msg.payload[2] # None
    /\ ping_msg.payload[2][1].hash = ping_msg.payload[1].hash

\* C31: for every message m, Message.from_bytes(m.to_bytes()) is m (same
\* type, payload and sender), and to_bytes is a 4-byte big-endian length L
\* followed by exactly L bytes of JSON.
C31_MessageRoundTrip ==
    ping_msg.type = "message_round_trip"
        => LET m == ping_msg.payload[1]
               bytes == ping_msg.payload[2]
           IN  /\ ping_msg.payload[3] = Some(m)
               /\ Len(bytes) = 4 + 16777216 * bytes[1] + 65536 * bytes[2]
                                 + 256 * bytes[3] + bytes[4]

\* C32: Transaction(...) raises, with no object made and no state of the node
\* changed, exactly when valor is not a positive finite number, or origem or
\* destino is empty, or origem = destino outside the system addresses; and a
\* NEW_TRANSACTION that carries such fields leaves chain and mempool as they
\* were.
C32_ConstructionRejects ==
    [][LET tx == ping_msg'.payload[1]
           rejected ==
               \/ ~(tx.valor > 0 /\ tx.valor \notin {Infinity, NaN})
               \/ tx.origem = ""
               \/ tx.destino = ""
               \/ tx.origem = tx.destino
                     /\ tx.origem \notin {"genesis", "coinbase"}
       IN  /\ ping_msg'.type = "Transaction"
                => /\ (ping_msg'.payload[2] = None) <=> rejected
                   /\ ping_msg'.payload[2] # None
                         => ping_msg'.payload[2] = Some(tx)
                   /\ UNCHANGED bcvars
           /\ (ping_msg'.type = "receive_transaction" /\ rejected)
                => /\ UNCHANGED bcvars
                   /\ ping_msg'.payload[2]
                   /\ ping_out' = {}]_vars

C32_Witness ==
    /\ ping_msg.type = "receive_transaction"
    /\ ping_msg.payload[1].valor = Infinity
    /\ ping_msg.payload[1].origem = "coinbase"
    /\ ping_msg.payload[1].destino = "alice"
    /\ ping_msg.payload[2]
    /\ pending_transactions # <<>>

\* C33: in one mine_block call worker i holds its own candidate block and
\* hashes only nonces i, i + WORKERS, i + 2 * WORKERS, ... in increasing order
\* (up to the bound, where the model starts the class over); no two workers
\* are at the same nonce; and every nonce of the publishing worker's class
\* below the published one was tried by it and failed the difficulty.
C33_NoncePartition ==
    /\ [](\A w \in Workers :
             /\ wnonce[w] % WORKERS = w
             /\ WorkerBlock(w).nonce = wnonce[w]
             /\ \A v \in Workers \ {w} : wnonce[v] # wnonce[w]
             /\ \A n \in WorkerNonces(w) :
                   (InMineBlock /\ n < wnonce[w])
                       => ~StartsWithDifficulty(LocalBlock(n).hash))
    /\ [](found_block # None
             => \A n \in WorkerNonces(found_block[1].nonce % WORKERS) :
                   n < found_block[1].nonce
                       => ~StartsWithDifficulty(LocalBlock(n).hash))
    /\ [][\A w \in Workers :
             wnonce'[w] # wnonce[w]
                => \/ /\ wpc[w] = "hash"
                      /\ wnonce'[w] = wnonce[w] + WORKERS
                   \/ /\ wpc[w] = "hash"
                      /\ wnonce[w] + WORKERS > MaxNonce
                      /\ wnonce'[w] = w
                   \/ /\ pc = "set_mining"
                      /\ wnonce'[w] = w]_vars

C33_Witness ==
    /\ found_block # None
    /\ found_block[1].nonce >= WORKERS
    /\ \E w \in Workers : w # found_block[1].nonce % WORKERS /\ wnonce[w] >= WORKERS

\* C34 as stated: mine_block puts the reward transaction (coinbase to the
\* miner, 50) first and then the mempool as it was at the start of the call,
\* by valor descending with equal values in mempool order; committing the
\* block takes those transactions out of the mempool and raises the miner's
\* confirmed balance by exactly 50.
C34_MinedBlockContent ==
    /\ [][(pc = "idle" /\ pc' = "snap_index")
             => LET reward_tx == locals'.transactions[1]
                    s == Tail(locals'.transactions)
                    p == pending_transactions
                    pos(tx) == CHOOSE i \in 1..Len(p) : p[i] = tx
                IN  /\ reward_tx.origem = "coinbase"
                    /\ reward_tx.destino = MinerAddress
                    /\ reward_tx.valor = 50
                    /\ Len(s) = Len(p)
                    /\ {s[i] : i \in 1..Len(s)} = {p[i] : i \in 1..Len(p)}
                    /\ \A i \in 1..Len(s) : \A j \in (i + 1)..Len(s) :
                          /\ s[i].valor >= s[j].valor
                          /\ s[i].valor = s[j].valor => pos(s[i]) < pos(s[j])]_vars
    /\ [](mine_ret # None => mine_ret[1].transactions = locals.transactions)
    /\ [][(pc = "commit" /\ pc' = "returned" /\ mine_ret # None
             /\ Len(chain') = Len(chain) + 1)
             => /\ \A i \in 1..Len(pending_transactions') :
                      \A j \in 1..Len(mine_ret[1].transactions) :
                          pending_transactions'[i].id
                              # mine_ret[1].transactions[j].id
                /\ ConfirmedBalance(chain', MinerAddress)
                      = ConfirmedBalance(chain, MinerAddress) + 50]_vars

\* C34, amended: the same, with the miner's confirmed balance raised by 50
\* plus what the transactions of the block after the first pay to the miner
\* and minus what they take from it: exactly 50 when none of them names the
\* miner's address.
C34_MinedBlockContentNet ==
    /\ [][(pc = "idle" /\ pc' = "snap_index")
             => LET reward_tx == locals'.transactions[1]
                    s == Tail(locals'.transactions)
                    p == pending_transactions
                    pos(tx) == CHOOSE i \in 1..Len(p) : p[i] = tx
                IN  /\ reward_tx.origem = "coinbase"
                    /\ reward_tx.destino = MinerAddress
                    /\ reward_tx.valor = 50
                    /\ Len(s) = Len(p)
                    /\ {s[i] : i \in 1..Len(s)} = {p[i] : i \in 1..Len(p)}
                    /\ \A i \in 1..Len(s) : \A j \in (i + 1)..Len(s) :
                          /\ s[i].valor >= s[j].valor
                          /\ s[i].valor = s[j].valor => pos(s[i]) < pos(s[j])]_vars
    /\ [](mine_ret # None => mine_ret[1].transactions = locals.transactions)
    /\ [][(pc = "commit" /\ pc' = "returned" /\ mine_ret # None
             /\ Len(chain') = Len(chain) + 1)
             => LET rest == Tail(mine_ret[1].transactions)
                IN  /\ \A i \in 1..Len(pending_transactions') :
                          \A j \in 1..Len(mine_ret[1].transactions) :
                              pending_transactions'[i].id
                                  # mine_ret[1].transactions[j].id
                    /\ \A i \in 1..Len(pending_transactions) :
                          (\A j \in 1..Len(rest) :
                               pending_transactions[i].id # rest[j].id)
                             => \E k \in 1..Len(pending_transactions') :
                                   pending_transactions'[k]
                                       = pending_transactions[i]
                    /\ ConfirmedBalance(chain', MinerAddress)
                          = ConfirmedBalance(chain, MinerAddress) + 50
                              + SumValor(SelectDestino(rest, MinerAddress))
                              - SumValor(SelectOrigem(rest, MinerAddress))
                    /\ (\A j \in 1..Len(rest) :
                           /\ rest[j].destino # MinerAddress
                           /\ rest[j].origem # MinerAddress)
                          => ConfirmedBalance(chain', MinerAddress)
                                = ConfirmedBalance(chain, MinerAddress) + 50]_vars

\* a block of two transactions of equal valor after the reward, one of them
\* paying the miner, was committed
C34_Witness ==
    /\ pc = "returned"
    /\ mine_ret # None
    /\ Len(chain) = 2
    /\ chain[2] = mine_ret[1]
    /\ Len(chain[2].transactions) = 3
    /\ chain[2].transactions[2].valor = chain[2].transactions[3].valor
    /\ chain[2].transactions[3].destino = MinerAddress
    /\ ConfirmedBalance(chain, MinerAddress) > 50

C36_ConvergenceBySync ==
    (\A n \in Nodes : nsync[n].pc = "done")
        => LET greatest == Max({Len(nsync[n].before) : n \in Nodes})
           IN  \A n \in Nodes :
                  /\ is_valid_chain(nodes[n].chain)
                  /\ Len(nodes[n].chain) = greatest
                  /\ Len(nsync[n].before) = greatest
                        => nodes[n].chain = nsync[n].before

\* the three nodes held chains of three lengths, two of them adopted the
\* longest, one before the other was polled by the third
C36_Witness ==
    /\ \A n \in Nodes : nsync[n].pc = "done"
    /\ {Len(nsync[n].before) : n \in Nodes} = {1, 2, 3}
    /\ \E n \in Nodes : nodes[n].chain # nsync[n].before

\* C37: when two handler threads are given the same NEW_TRANSACTION, one
\* add_transaction call accepts it: the mempool holds one entry of that id,
\* pending_ids is the set of the ids of the mempool once the calls are over,
\* and the transaction is re-broadcast once.
C37_OneOfTwoAccepts ==
    /\ \A i \in 1..Len(pending_transactions) :
          \A j \in 1..Len(pending_transactions) :
              i # j => pending_transactions[i].id # pending_transactions[j].id
    /\ (\A t \in Threads : th[t].pc = "idle")
          => pending_ids = {pending_transactions[i].id :
                               i \in 1..Len(pending_transactions)}
    /\ \A o \in ping_out : \A q \in ping_out :
          o.payload.id = q.payload.id => o.by = q.by

\* C38: over the operations of a node taken one at a time the chain never
\* gets shorter, and add_block accepts at most one block per index, so the
\* node broadcasts at most one NEW_BLOCK per height.
C38_MonotonicGrowth ==
    /\ [][Len(chain') >= Len(chain)]_vars
    /\ [](\A a \in block_broadcast : \A b \in block_broadcast :
             a.index = b.index => a = b)
    /\ [][\A b \in block_broadcast' \ block_broadcast :
             /\ b.index = Len(chain)
             /\ Len(chain') = Len(chain) + 1
             /\ \A a \in block_broadcast : a.index < b.index]_vars

\* the node broadcast a block at height 1, then adopted a longer chain that
\* does not hold it
C38_Witness ==
    /\ last = "replace_chain"
    /\ \E b \in block_broadcast : b.index = 1 /\ chain[2] # b

\* C39: among nodes where every transaction enters a mempool through
\* add_transaction and every block is mined from a node's own mempool, the
\* confirmed balance of every address that is not a system address is never
\* below 0 in the chain of any node.
C39_NoOverdraft ==
    \A n \in Nodes : \A address \in {"alice", "bob", MinerAddress} :
        ConfirmedBalance(nodes[n].chain, address) >= 0

\* C40: after any sequence of add_transaction, add_block and replace_chain,
\* pending_ids is exactly the set of the ids of the transactions of
\* pending_transactions, and no id occurs twice in pending_transactions.
C40_MempoolIndex ==
    /\ pending_ids = TxIds(pending_transactions)
    /\ Cardinality(pending_ids) = Len(pending_transactions)

\* mine() committed a block of the mempool, add_block took its transactions
\* out of the mempool, and add_transaction accepted another one afterwards
C40_Witness ==
    /\ last = "add_transaction"
    /\ pending_transactions # <<>>
    /\ \E i \in 2..Len(chain) :
          /\ Len(chain[i].transactions) >= 2
          /\ chain[i].transactions[1].origem = "coinbase"
          /\ chain[i].transactions[1].destino = MinerAddress

====
